---- MODULE Spec2Model ----
(***************************************************************************)
(* A model of the chat backend of one user and one chat session: the POST  *)
(* endpoint that stores the user message and schedules the reply, the      *)
(* background task _generate_and_push_response that drives the generator   *)
(* ChatService.send_message_streaming and forwards its events to the       *)
(* user's WebSocket, the message operations of ChatService (edit_message,  *)
(* delete_message, delete_session), and the ConnectionManager of the       *)
(* WebSocket endpoint with its stop-generation flag.                       *)
(*                                                                         *)
(* asyncio runs one coroutine at a time, so a step of the model is the     *)
(* code a coroutine runs between two awaits that suspend it.  The          *)
(* database calls are synchronous SQLAlchemy calls and do not suspend.     *)
(***************************************************************************)
EXTENDS Integers, Sequences, FiniteSets, TLC

(***************************************************************************)
(* Bounds of the model.                                                    *)
(***************************************************************************)
MaxTurns == 2        \* POSTs of the user in one behaviour
MaxSeed == 4         \* messages a stored session holds before the first POST
MaxSockets == 2      \* WebSocket connections the user opens in one behaviour
MaxStops == 1        \* stop_generation messages the user sends in one behaviour

\* AIModel.max_context_length of the session's model, in tokens (scaled down)
MaxContextLength == 10

Turns == 1..MaxTurns
SockIds == 1..MaxSockets

\* RateLimitMiddleware(max_requests=60, window_seconds=60), scaled down
max_requests == 2
window_seconds == 2
MaxClock == 4        \* seconds the clock of the rate limiter runs
MaxCalls == 4        \* HTTP requests in one behaviour
max_iterations == 3   \* ADKAgentAdapter(max_iterations=50), scaled down
MaxLlmCalls == 5      \* LLM calls of one turn the model follows
MaxTokens == 12      \* current_context_tokens of the sessions the threshold is tested on
MaxIssued == 3       \* refresh tokens issued in one behaviour
MaxCompleted == 3    \* turns that complete in one behaviour
MaxObjects == 3      \* tool instances created in one behaviour
MaxToolCalls == 3    \* tool calls of one turn
MaxParallel == 2     \* function calls in one reply of the LLM
MaxTurnCalls == 2    \* LLM calls of one turn, where two turns share an adapter
MaxLength == 12      \* max_context_length of the models the threshold is tested on

(***************************************************************************)
(* Program constants.                                                      *)
(***************************************************************************)
ERROR == 1999
MESSAGE_START == 2000
MESSAGE_DONE == 2002
MESSAGE_CONTENT == 2001
THINKING_START == 3000
THINKING_DELTA == 3001
THINKING_COMPLETE == 3002
TOOL_CALL == 4000
TOOL_RESULT == 4001
LLM_INVOCATION_COMPLETE == 5000

STATUS_PENDING == 4
STATUS_ERROR == 5

\* generate_session_summary keeps the 5 latest messages out of the summary
KeepRecent == 5

\* model_config.max_context_length or 32768
DefaultMaxContext == 32768

\* int(model_max_context * 0.9): the product is a float and int() drops its
\* fraction; for the lengths of interest that is the integer part of 9/10 of it
ThresholdOf(max_context_length) ==
    LET model_max_context == IF max_context_length = 0 THEN DefaultMaxContext
                             ELSE max_context_length
    IN (model_max_context * 9) \div 10

\* session.current_context_tokens >= int(model_max_context * 0.9)
ShouldSummarize(current_context_tokens, max_context_length) ==
    current_context_tokens >= ThresholdOf(max_context_length)

SummaryThreshold == ThresholdOf(MaxContextLength)

\* total_tokens the assistant messages of a stored session may carry
TokenValues == {0, 4, SummaryThreshold}

(***************************************************************************)
(* State.                                                                  *)
(***************************************************************************)
VARIABLES
    msgs,       \* chat_messages rows in created_at order, flushed or committed
    sess,       \* the committed chat_sessions row
    nextId,     \* source of fresh message ids (uuid4)
    turn,       \* per POST: the background task and the locals of its generator
    sent,       \* per POST: the frames its task has sent to the WebSocket
    mgr,        \* ConnectionManager: active_connections, heartbeat_tasks, stop flag
    socks,      \* per WebSocket: connection state, endpoint coroutine, heartbeat task
    hist,       \* history: stop_generation messages received and the turns then in
                \* flight; the turns whose tasks ran while another task was running;
                \* the message of the latest edit_message
    rl,         \* the rate limiter: clock, Redis counters, log of the requests served
    st,         \* the streaming loop of one turn: what the agent delivers, how far
                \* the loop has read it, and the locals of send_message_streaming
    adk,        \* the agent of the process: the events of its cached ADK session,
                \* and the messages the latest LLM call was given
    th,         \* the summary threshold test of one turn: its inputs and its outcome
    loop,       \* the agent loop of one turn: the LLM calls made and the tools dispatched
    hub,        \* one tool call: the tools/call request, what the MCP server did, what the LLM got
    fl,         \* a turn whose LLM transport fails: the streaming loop, the placeholder row
    au,         \* the refresh tokens in Redis, the tokens issued, and the last request that presented an access token
    tt,         \* the title of a session: its live messages, the turns that completed, the title tasks
    rg,         \* a ToolRegistry: _tools, _instances, the objects created, the instances handed out, the last call
    tc,         \* the tool calls of one turn: the calls awaiting their result, the pairing of results, the updates of rows
    sh          \* the LLM adapter cached for a session and model, shared by its turns, and the ModelInvocation rows

vars == <<msgs, sess, nextId, turn, sent, mgr, socks, hist, rl, st, adk, th, loop, hub, fl, au, tt, rg, tc, sh>>

\* the state of the chat service, and the state of the rest of the server
chatVars == <<msgs, sess, nextId, turn, sent, mgr, socks, hist>>
otherVars == <<rl, st, adk, th, loop, hub, fl, au, tt, rg, tc, sh>>

\* the rest of the server without one of its parts
exceptRl == <<st, adk, th, loop, hub, fl, au, tt, rg, tc, sh>>
exceptSt == <<rl, adk, th, loop, hub, fl, au, tt, rg, tc, sh>>
exceptAdk == <<rl, st, th, loop, hub, fl, au, tt, rg, tc, sh>>
exceptTh == <<rl, st, adk, loop, hub, fl, au, tt, rg, tc, sh>>
exceptLoop == <<rl, st, adk, th, hub, fl, au, tt, rg, tc, sh>>
exceptHub == <<rl, st, adk, th, loop, fl, au, tt, rg, tc, sh>>
exceptFl == <<rl, st, adk, th, loop, hub, au, tt, rg, tc, sh>>
exceptAu == <<rl, st, adk, th, loop, hub, fl, tt, rg, tc, sh>>
exceptTt == <<rl, st, adk, th, loop, hub, fl, au, rg, tc, sh>>
exceptRg == <<rl, st, adk, th, loop, hub, fl, au, tt, tc, sh>>
exceptTc == <<rl, st, adk, th, loop, hub, fl, au, tt, rg, sh>>
exceptSh == <<rl, st, adk, th, loop, hub, fl, au, tt, rg, tc>>

(***************************************************************************)
(* Rows of chat_messages.  committed and owner say whether a row is        *)
(* committed or only flushed, and by the database session of which turn.   *)
(***************************************************************************)
Msg(id, role, tokens, status, owner, committed) ==
    [id |-> id, role |-> role, is_deleted |-> FALSE, is_summarized |-> FALSE,
     is_summary |-> FALSE, total_tokens |-> tokens, status |-> status,
     committed |-> committed, owner |-> owner]

\* ChatService.create_message: the writer of stored history.  A stored session
\* holds n messages user, assistant, user, ... ; tok is the total_tokens its
\* assistant messages recorded.
SeedMsgs(n, tok) ==
    [i \in 1..n |->
        IF i % 2 = 1 THEN Msg(i, "user", 0, "sent", 0, TRUE)
        ELSE Msg(i, "assistant", tok, "sent", 0, TRUE)]

SeedSizes == {n \in 0..MaxSeed : n % 2 = 0}

\* the rows a database session sees: the committed ones and its own flushed ones
Visible(rows, t) == SelectSeq(rows, LAMBDA m : m.committed \/ m.owner = t)

Committed(rows) == SelectSeq(rows, LAMBDA m : m.committed)

\* indices of the rows that are not deleted and have the given role
LiveOfRole(rows, role) ==
    {i \in 1..Len(rows) : ~rows[i].is_deleted /\ rows[i].role = role}

MaxOf(S) == CHOOSE x \in S : \A y \in S : y <= x

\* ChatService.calculate_current_context_tokens, over the rows a session sees
calculate_current_context_tokens(rows) ==
    LET cand == LiveOfRole(rows, "assistant")
    IN IF cand = {} THEN 0 ELSE rows[MaxOf(cand)].total_tokens

\* a placeholder that is committed where the code only flushes it
PlaceholderCommitted(id, t) == Msg(id, "assistant", 0, "pending", t, TRUE)

\* db.add(assistant_message_placeholder); db.flush()
PlaceholderRow(id, t) == Msg(id, "assistant", 0, "pending", t, FALSE)

\* db.close() of the task's database session: what it flushed is rolled back
RollbackRows(rows, t) == SelectSeq(rows, LAMBDA m : m.committed \/ m.owner # t)

(***************************************************************************)
(* Wire frames.  An event envelope carries event_type and event_id; the    *)
(* notices of the task and of the WebSocket endpoint are bare              *)
(* {"type": ...} frames without them.                                      *)
(***************************************************************************)
\* ChatService._wrap_ws_message
Envelope(type, id, status, fin) ==
    [event_type |-> type, event_id |-> id, status |-> status, is_finish |-> fin]

\* {"type": "error", "error": str(e)} of _generate_and_push_response
ErrorNotice == [type |-> "error"]

\* {"type": "info", "message": "已停止生成"} of _generate_and_push_response
StoppedNotice == [type |-> "info"]

\* ChatService._get_next_event_id; current_type 0 stands for None
GetNextEventId(event_type, current_type, current_id) ==
    IF current_type = 0 \/ event_type # current_type
    THEN <<0, event_type>>
    ELSE <<current_id + 1, event_type>>

\* the locals of send_message_streaming and the state of its task before the task runs
IdleTurn ==
    [task |-> "idle", gen |-> "new", exit |-> "none",
     event_id |-> 0, current_event_type |-> 0, message_index |-> 0,
     assistant_message_id |-> 0, message_count |-> 0, current_context_tokens |-> 0,
     summary_called |-> FALSE, summary_selected |-> FALSE]

(***************************************************************************)
(* ConnectionManager.                                                      *)
(***************************************************************************)
\* ConnectionManager.disconnect: the registered heartbeat task is cancelled and
\* both entries of the user are removed
Disconnect(m, sk) ==
    LET h == m.heartbeat_tasks
    IN [mgr |-> [m EXCEPT !.heartbeat_tasks = 0, !.active_connections = 0],
        socks |-> IF h # 0 /\ sk[h].heartbeat = "running"
                  THEN [sk EXCEPT ![h].heartbeat = "cancelled"]
                  ELSE sk]

\* ConnectionManager.send_message of frame f for turn t: nothing without a
\* registered connection; a failed send_json disconnects the user and raises
Transmit(m, sk, se, t, f) ==
    LET c == m.active_connections
    IN IF c = 0 THEN [mgr |-> m, socks |-> sk, sent |-> se, raised |-> FALSE]
       ELSE IF sk[c].state = "open"
       THEN [mgr |-> m, socks |-> sk,
             sent |-> [se EXCEPT ![t] = Append(@, f)], raised |-> FALSE]
       ELSE [mgr |-> Disconnect(m, sk).mgr, socks |-> Disconnect(m, sk).socks,
             sent |-> se, raised |-> TRUE]

\* ConnectionManager.clear_stop_generation
ClearStop(m) == [m EXCEPT !.stop_generation_flags = FALSE]

(***************************************************************************)
(* _generate_and_push_response: the body of its async for, for the frame f *)
(* the generator has just yielded, and its except and finally clauses.     *)
(* r holds the locals of the generator, ms the rows with its flushes.      *)
(***************************************************************************)
\* finally: clear_stop_generation, db.close()
Finally(t, r, how, x, ms) ==
    [turn |-> [r EXCEPT !.task = "exited", !.exit = how],
     mgr |-> ClearStop(x.mgr), socks |-> x.socks, sent |-> x.sent,
     msgs |-> RollbackRows(ms, t)]

\* except Exception: the error notice is pushed, a failure to push it is logged
Except(t, r, how, x, ms) ==
    Finally(t, r, how, Transmit(x.mgr, x.socks, x.sent, t, ErrorNotice), ms)

LoopBody(t, r, f, m, sk, se, ms) ==
    LET here == [mgr |-> m, socks |-> sk, sent |-> se]
    IN IF m.stop_generation_flags
       THEN LET x == Transmit(m, sk, se, t, StoppedNotice)
            IN IF x.raised THEN Except(t, r, "sendfail", x, ms)
               ELSE Finally(t, r, "stopped", x, ms)
       ELSE IF m.active_connections = 0
       THEN Finally(t, r, "gone", here, ms)
       ELSE LET x == Transmit(m, sk, se, t, f)
            IN IF x.raised THEN Except(t, r, "sendfail", x, ms)
               ELSE [turn |-> r, mgr |-> x.mgr, socks |-> x.socks,
                     sent |-> x.sent, msgs |-> ms]

(***************************************************************************)
(* The HTTP middlewares.  The middleware added last runs first, so a       *)
(* request passes JWTMiddleware and then RateLimitMiddleware.              *)
(***************************************************************************)
Users == {"alice", "bob"}
Addresses == {"10.0.0.1", "10.0.0.2"}
Tokens == {"none", "valid", "invalid"}

RateKeys == {<<"ip", a>> : a \in Addresses} \cup {<<"user", u>> : u \in Users}

\* JWTMiddleware.dispatch for a request of user u: whether the request is
\* passed on (an invalid token is answered 401 by the middleware itself), and
\* the attributes of request.state it leaves behind
JWTDispatch(u, token) ==
    [passed |-> token # "invalid",
     state |-> IF token = "valid" THEN [user_id |-> u] ELSE [none \in {} |-> 0]]

\* RateLimitMiddleware._get_rate_limit_key
get_rate_limit_key(state, addr) ==
    IF "user" \in DOMAIN state THEN <<"user", state.user>> ELSE <<"ip", addr>>

\* RedisService.check_rate_limit at time now: INCR, EXPIRE when the counter is
\* new; a counter whose expiry has passed is gone
check_rate_limit(store, key, now) ==
    LET cur == store[key]
        live == cur.count > 0 /\ now < cur.expires
        count == IF live THEN cur.count + 1 ELSE 1
        expires == IF live THEN cur.expires ELSE now + window_seconds
    IN [store |-> [store EXCEPT ![key] = [count |-> count, expires |-> expires]],
        allowed |-> count <= max_requests]

\* served: how many requests of a user from an address were let through at
\* each second; answered: the kinds of request seen, with the key each was
\* counted under and the status it was answered with
InitRate ==
    [now |-> 0,
     store |-> [k \in RateKeys |-> [count |-> 0, expires |-> 0]],
     served |-> [u \in Users |-> [a \in Addresses |-> [s \in 0..MaxClock |-> 0]]],
     answered |-> {},
     calls |-> 0]

(***************************************************************************)
(* Text.  A text is a sequence of characters; the operators below are the  *)
(* string operations the content handlers use.                             *)
(***************************************************************************)
OpenTag == <<"<", "t", "h", "i", "n", "k", ">">>
CloseTag == <<"<", "/", "t", "h", "i", "n", "k", ">">>
Whitespace == {" "}

\* text[k:]
From(text, k) == IF k >= Len(text) THEN <<>> ELSE SubSeq(text, k + 1, Len(text))

\* text[:k]
Upto(text, k) == IF k <= 0 THEN <<>> ELSE SubSeq(text, 1, IF k > Len(text) THEN Len(text) ELSE k)

\* the first position at or after from where sub occurs in text, 0 when none
Find(sub, text, from) ==
    LET hits == {i \in from..(Len(text) - Len(sub) + 1) :
                    SubSeq(text, i, i + Len(sub) - 1) = sub}
    IN IF hits = {} THEN 0 ELSE CHOOSE i \in hits : \A j \in hits : i <= j

\* sub in text
Contains(sub, text) == Find(sub, text, 1) # 0

\* str.strip()
Strip(text) ==
    LET solid == {i \in 1..Len(text) : text[i] \notin Whitespace}
    IN IF solid = {} THEN <<>>
       ELSE SubSeq(text, CHOOSE i \in solid : \A j \in solid : i <= j,
                         CHOOSE i \in solid : \A j \in solid : i >= j)

\* re.search(r'<think>(.*?)</think>', text, re.DOTALL): the leftmost opening
\* tag that has a closing tag after it, up to the first such closing tag
ThinkMatch(text) ==
    LET o == Find(OpenTag, text, 1)
        c == IF o = 0 THEN 0 ELSE Find(CloseTag, text, o + Len(OpenTag))
    IN IF c = 0 THEN [found |-> FALSE, start |-> 0, end |-> 0, group |-> <<>>]
       ELSE [found |-> TRUE, start |-> o, end |-> c + Len(CloseTag) - 1,
             group |-> IF c = o + Len(OpenTag) THEN <<>>
                       ELSE SubSeq(text, o + Len(OpenTag), c - 1)]

\* text[:match.start()] + text[match.end():]
CutMatch(text, m) == Upto(text, m.start - 1) \o From(text, m.end)

\* re.sub(r'<think>.*?</think>', '', text, flags=re.DOTALL)
RECURSIVE RemoveThinking(_)
RemoveThinking(text) ==
    LET m == ThinkMatch(text)
    IN IF ~m.found THEN text
       ELSE Upto(text, m.start - 1) \o RemoveThinking(From(text, m.end))

(***************************************************************************)
(* FrontendEventAdapter._convert_content_event and                         *)
(* ADKAgentAdapter._frontend_to_chat_format for the text of one ADK event: *)
(* the content of the chunk ChatService receives, <<>> when there is none. *)
(* A text with a complete thinking block is reduced to the stripped text   *)
(* of its first block.                                                     *)
(***************************************************************************)
ConvertContentEvent(text) ==
    IF Contains(OpenTag, text) /\ Contains(CloseTag, text) /\ ThinkMatch(text).found
    THEN IF Strip(ThinkMatch(text).group) # <<>>
         THEN Strip(ThinkMatch(text).group)
         ELSE Strip(RemoveThinking(text))
    ELSE text

(***************************************************************************)
(* The streaming loop of send_message_streaming.  L holds the locals of    *)
(* the generator; out collects the events it yields.                       *)
(***************************************************************************)
\* a timeline entry of a finished thinking block
ThinkingItem == [type |-> "thinking", tool_name |-> "", tool_id |-> 0, status |-> ""]

Event(type, id, text) == [event_type |-> type, event_id |-> id, text |-> text]

\* _get_next_event_id, yield _wrap_ws_message(...), message_index += 1
Emit(L, type, text) ==
    LET nx == GetNextEventId(type, L.current_event_type, L.event_id)
    IN [L EXCEPT !.event_id = nx[1], !.current_event_type = nx[2],
                 !.message_index = @ + 1,
                 !.out = Append(@, Event(type, nx[1], text))]

\* while "<think>" in assistant_content and "</think>" in assistant_content
RECURSIVE CompleteThinking(_)
CompleteThinking(L) ==
    LET text == L.assistant_content
        m == ThinkMatch(text)
    IN IF ~(Contains(OpenTag, text) /\ Contains(CloseTag, text)) \/ ~m.found THEN L
       ELSE LET L1 == IF Strip(m.group) # <<>>
                      THEN [Emit(L, THINKING_COMPLETE, <<>>) EXCEPT
                                !.timeline = Append(@, ThinkingItem)]
                      ELSE L
            IN CompleteThinking([L1 EXCEPT !.assistant_content = CutMatch(text, m),
                                           !.thinking_buffer = <<>>,
                                           !.current_thinking_id = FALSE])

\* the branch for an opening tag without a closing tag
OpenThinking(L) ==
    LET text == L.assistant_content
        think_pos == Find(OpenTag, text, 1) - 1
        before_think == Upto(text, think_pos)
        current_thinking == From(text, think_pos + Len(OpenTag))
        L1 == IF before_think # <<>> /\ L.last_sent_content_len < Len(before_think)
              THEN [Emit(L, MESSAGE_CONTENT, From(before_think, L.last_sent_content_len))
                        EXCEPT !.last_sent_content_len = Len(before_think)]
              ELSE L
        L2 == IF ~L1.current_thinking_id
              THEN [Emit(L1, THINKING_START, <<>>) EXCEPT !.current_thinking_id = TRUE]
              ELSE L1
        new_thinking_delta == From(current_thinking, Len(L2.thinking_buffer))
        L3 == [L2 EXCEPT !.thinking_buffer = current_thinking]
    IN IF new_thinking_delta # <<>> THEN Emit(L3, THINKING_DELTA, new_thinking_delta)
       ELSE L3

\* the branch without an unfinished thinking block
PlainContent(L) ==
    LET text == L.assistant_content
    IN IF text # <<>> /\ L.last_sent_content_len < Len(text)
       THEN [Emit(L, MESSAGE_CONTENT, From(text, L.last_sent_content_len))
                EXCEPT !.last_sent_content_len = Len(text)]
       ELSE L

\* chunk["type"] == "content"
OnContent(L, content) ==
    LET L1 == CompleteThinking([L EXCEPT !.assistant_content = @ \o content])
    IN IF Contains(OpenTag, L1.assistant_content)
            /\ ~Contains(CloseTag, L1.assistant_content)
       THEN OpenThinking(L1)
       ELSE PlainContent(L1)

\* chunk["type"] == "tool_calls": one ToolInvocation row per tool call, flushed
OnToolCalls(L, tool_name) ==
    LET n == L.tool_sequence_counter + 1
        L1 == [L EXCEPT !.tool_sequence_counter = n,
                        !.tool_rows = Append(@, [sequence_number |-> n,
                                                 triggered_by_llm_sequence |-> L.last_llm_sequence,
                                                 tool_name |-> tool_name,
                                                 status |-> "pending"]),
                        !.timeline = Append(@, [type |-> "tool_call", tool_name |-> tool_name,
                                                tool_id |-> n, status |-> "pending"])]
    IN Emit(L1, TOOL_CALL, <<>>)

\* for event in reversed(timeline): the index of the first event that is a
\* pending call of that tool, 0 when there is none
MatchingCall(timeline, tool_name) ==
    LET pending == {i \in 1..Len(timeline) :
                       /\ timeline[i].type = "tool_call"
                       /\ timeline[i].tool_name = tool_name
                       /\ timeline[i].status = "pending"}
    IN IF pending = {} THEN 0 ELSE CHOOSE x \in pending : \A y \in pending : x >= y

\* a tool_result branch that marks the timeline and leaves the row alone
OnToolResultTimelineOnly(L, tool_name) ==
    LET i == MatchingCall(L.timeline, tool_name)
        L1 == IF i = 0 THEN L ELSE [L EXCEPT !.timeline[i].status = "success"]
    IN Emit(L1, TOOL_RESULT, <<>>)

\* chunk["type"] == "tool_result": the latest pending call of that tool in the
\* timeline and its row become "success"
OnToolResult(L, tool_name) ==
    LET i == MatchingCall(L.timeline, tool_name)
        L1 == IF i = 0 THEN L
              ELSE LET k == L.timeline[i].tool_id
                   IN [L EXCEPT !.timeline[i].status = "success",
                                !.tool_rows[k].status = "success"]
    IN Emit(L1, TOOL_RESULT, <<>>)

\* chunk["type"] == "llm_invocation"
OnLlmInvocation(L, data) ==
    LET L1 == [L EXCEPT !.session_total_tokens = @ + data.total_tokens]
    IN [Emit(L1, LLM_INVOCATION_COMPLETE, <<>>) EXCEPT
            !.out[Len(L1.out) + 1] = @ @@ [sequence |-> data.sequence,
                                           total |-> data.total_tokens]]

\* ADKLlmAdapter.generate_content_async on the chunk of the LLM that carries
\* the token counts: _save_model_invocation flushes a ModelInvocation row and
\* the adapter remembers its sequence number
SaveModelInvocation(L, prompt, completion) ==
    LET n == L.llm_sequence_counter + 1
    IN [L EXCEPT !.llm_sequence_counter = n,
                 !.last_llm_sequence = n,
                 !.llm_rows = Append(@, [sequence_number |-> n,
                                         total_tokens |-> prompt + completion])]

\* ADKAgentAdapter: before the events of an ADK event, and once after the
\* last one, a pending_invocation_data of the LLM adapter is turned into an
\* llm_invocation chunk.  No code assigns pending_invocation_data (0: unset).
FlushPendingInvocation(L) ==
    IF L.pending_invocation_data # 0
    THEN [OnLlmInvocation(L, L.pending_invocation_data) EXCEPT
              !.pending_invocation_data = 0]
    ELSE L

\* the locals when the streaming loop is entered, after message_start
StreamLocals ==
    [assistant_content |-> <<>>, thinking_buffer |-> <<>>,
     last_sent_content_len |-> 0, current_thinking_id |-> FALSE,
     timeline |-> <<>>, tool_sequence_counter |-> 0, tool_rows |-> <<>>,
     total_tokens |-> 0, session_total_tokens |-> 0,
     llm_sequence_counter |-> 0, last_llm_sequence |-> 0, llm_rows |-> <<>>,
     pending_invocation_data |-> 0,
     event_id |-> 0, current_event_type |-> MESSAGE_START, message_index |-> 1,
     out |-> <<Event(MESSAGE_START, 0, <<>>)>>]

\* one item of what the LLM and the ADK runner deliver
OnItem(L, item) ==
    IF item.kind = "usage" THEN SaveModelInvocation(L, item.prompt, item.completion)
    ELSE LET L1 == FlushPendingInvocation(L)
         IN IF item.kind = "text"
            THEN IF ConvertContentEvent(item.text) = <<>> THEN L1
                 ELSE OnContent(L1, ConvertContentEvent(item.text))
            ELSE IF item.kind = "call" THEN OnToolCalls(L1, item.tool)
            ELSE OnToolResult(L1, item.tool)

\* after the loop: the placeholder is completed with the locals, the session's
\* current_context_tokens is recomputed, everything is committed and
\* message_done goes out with the context information
Finalize(L) ==
    LET L1 == FlushPendingInvocation(L)
        L2 == IF L1.thinking_buffer # <<>>
              THEN [L1 EXCEPT !.timeline = <<ThinkingItem>> \o @] ELSE L1
        row == Msg(2, "assistant", L2.total_tokens, "completed", 0, TRUE)
        rows == <<Msg(1, "user", 0, "completed", 0, TRUE), row>>
        ctx == calculate_current_context_tokens(rows)
    IN [Emit(L2, MESSAGE_DONE, <<>>) EXCEPT
            !.out[Len(L2.out) + 1] = @ @@ [current_context_tokens |-> ctx]]

(***************************************************************************)
(* What the agent delivers in one turn: the events of the ADK runner and   *)
(* the final chunks of the LLM calls behind them, in order.  A text item   *)
(* is one streamed frame of the reply; a usage item is the last chunk of   *)
(* an LLM call, which carries the token counts; a call and a response item *)
(* are the function_call and function_response events of one tool call.    *)
(***************************************************************************)
TextItem(text) == [kind |-> "text", text |-> text, tool |-> "", prompt |-> 0, completion |-> 0]
UsageItem(p, c) == [kind |-> "usage", text |-> <<>>, tool |-> "", prompt |-> p, completion |-> c]
CallItem(tool) == [kind |-> "call", text |-> <<>>, tool |-> tool, prompt |-> 0, completion |-> 0]
ResponseItem(tool) == [kind |-> "response", text |-> <<>>, tool |-> tool, prompt |-> 0, completion |-> 0]

\* a reply cut into frames after its first i and its first j characters
Cut(text, i, j) ==
    SelectSeq(<<Upto(text, i), SubSeq(text, i + 1, j), From(text, j)>>,
              LAMBDA piece : piece # <<>>)

TextItems(frames) == [k \in 1..Len(frames) |-> TextItem(frames[k])]

Hi == <<"h", "i">>
Replies ==
    { OpenTag \o <<"a", "b", "c", "d", "e", "f">> \o CloseTag \o <<"x", "y", "z">>,
      OpenTag \o <<"p", "l", "a", "n">> \o CloseTag \o <<"a", "n", "s", "w", "e", "r">>,
      Hi }

\* a reply without tools: its frames, then the chunk with the token counts
TextScript(frames) == TextItems(frames) \o <<UsageItem(3, 1)>>

\* a reply with one tool call: the first LLM call ends in a function call, the
\* tool runs, the second LLM call streams the answer.  The reply of the
\* non-streamed call that generate_content_async makes after a stream without
\* content comes as one more text frame, when it is not empty.
ToolScript(fallback, frames) ==
    <<UsageItem(3, 1), CallItem("search"), ResponseItem("search")>>
        \o TextItems(fallback) \o TextItems(frames) \o <<UsageItem(5, 2)>>

Scripts ==
    UNION { { TextScript(Cut(r, c[1], c[2])) :
                  c \in {d \in (0..Len(r)) \X (0..Len(r)) : d[1] <= d[2]} } :
            r \in Replies }
    \cup { ToolScript(fb, Cut(Hi, i, 2)) : fb \in {<<>>, <<Hi>>}, i \in 0..2 }

IdleStream == [phase |-> "idle", script |-> <<>>, pc |-> 0, L |-> StreamLocals]

(***************************************************************************)
(* Tokens.  A refresh token is a key of Redis; the access token issued     *)
(* with it carries it as refresh_token_id.  A request presents an access   *)
(* token in an Authorization header with a scheme, for a path.             *)
(***************************************************************************)
Schemes == {"Bearer", "bearer"}
Paths == {"public", "protected"}

NoRequest == [refresh_token_id |-> 0, scheme |-> "", path |-> "", purged |-> FALSE,
              middleware |-> "", status_code |-> 0]

InitAuth == [store |-> {}, issued |-> 0, purged |-> {}, last_purge |-> "",
             request |-> NoRequest, requests |-> 0]

\* AuthService._generate_tokens: a new refresh token is saved in Redis and an
\* access token bound to it is returned
GenerateTokens(a) ==
    [a EXCEPT !.issued = @ + 1, !.store = @ \cup {a.issued + 1}]

\* redis_service.delete_refresh_token, and the expiry of the key
Purge(a, token, how) ==
    [a EXCEPT !.store = @ \ {token}, !.purged = @ \cup {token}, !.last_purge = how]

\* JWTMiddleware.dispatch for a request that presents a well-formed access
\* token bound to refresh_token_id: "passed" when it calls call_next, "401"
\* when it answers itself
JWTMiddleware(path, scheme, refresh_token_id, store) ==
    IF path = "public" THEN "passed"
    ELSE IF scheme = "Bearer"
    THEN IF refresh_token_id \in store THEN "passed" ELSE "401"
    ELSE "passed"

\* get_current_user behind HTTPBearer(), which accepts the scheme in any
\* case: the token is decoded and its jti looked up in the blacklist, to
\* which nothing is ever added
GetCurrentUser(scheme) == 200

(***************************************************************************)
(* The title of a session.  live is the sequence of the turns whose two    *)
(* messages are not deleted; title is 0 for the title the session was      *)
(* created with, k for the title generated after turn k, "user" for one    *)
(* the user has set; scheduled holds the turns that created a title task,  *)
(* waiting the tasks that have not run yet.                                *)
(***************************************************************************)
InitTitle == [message_count |-> 0, live |-> <<>>, completed |-> 0, title |-> <<"default">>,
              scheduled |-> {}, waiting |-> {}]

\* what the title is set to by the task created after turn k
GeneratedTitle(k) == <<"generated", k>>

\* awaiting: the calls of the current reply whose result has not arrived, in
\* call order; answers: for every result, the call it answers and the tool_id
\* its event and row update were given; updates: how often the status of each
\* row was changed
InitToolCalls == [phase |-> "calls", L |-> StreamLocals, awaiting |-> <<>>,
                  answers |-> <<>>, updates |-> <<>>]

(***************************************************************************)
(* The ADKLlmAdapter of _GLOBAL_ADK_LLM_CACHE for one session and model.   *)
(* Every turn of the session writes its tracking attributes into it.  A    *)
(* turn is named by its number: its placeholder message, its database      *)
(* session and its history are the ones of that number; 0 is unset.        *)
(***************************************************************************)
NoAdapter == [current_message_id |-> 0, db_session |-> 0, history |-> 0,
              llm_sequence_counter |-> 0]

\* state: "new", "running" or "ended" for every turn; http: the HTTP calls a
\* turn has made to the LLM; rows: the ModelInvocation rows in the order
\* they were added, each with the turn whose call it records
InitShared == [adapter |-> NoAdapter,
               state |-> [t \in Turns |-> "new"],
               http |-> [t \in Turns |-> 0],
               calls |-> [t \in Turns |-> 0],
               rows |-> <<>>]

\* send_message_streaming sets the tracking attributes on its new adapter and
\* run_streaming copies them to the cached one
TrackTurn(t) == [current_message_id |-> t, db_session |-> t, history |-> t,
                 llm_sequence_counter |-> 0]

\* _save_model_invocation of the cached adapter, for a call made by turn t
ModelInvocationRow(a, t) ==
    [turn |-> t, message_id |-> a.current_message_id,
     sequence_number |-> a.llm_sequence_counter + 1,
     db_session |-> a.db_session, history |-> a.history]

(***************************************************************************)
(* ToolRegistry.  A tool class registers under the name get_name() gives   *)
(* it; an instance is an object, identified by the number of its creation. *)
(* "None" and 0 stand for None.                                            *)
(***************************************************************************)
\* Testtool1 is a class of another module whose name gives the same tool name
ToolClasses == {"TestTool1", "TestTool2", "Testtool1"}
RegistryNames == {"testtool1", "testtool2", "nonexistent"}

\* BaseTool.get_name
GetName(tool_class) == IF tool_class = "TestTool2" THEN "testtool2" ELSE "testtool1"

NoCall == [op |-> "", name |-> "", registered |-> FALSE, cached |-> FALSE,
           tool |-> "None", instance |-> 0]

\* created: the class of every object, in the order of creation; returned: the
\* instances get_instance has handed out for a name since the name was last
\* unregistered
InitRegistry ==
    [tools |-> [n \in RegistryNames |-> "None"],
     instances |-> [n \in RegistryNames |-> 0],
     objects |-> 0,
     created |-> <<>>,
     returned |-> [n \in RegistryNames |-> {}],
     last |-> NoCall]

\* get_instance that builds a new instance at every call
GetInstanceUncached(r, tool_name) ==
    IF r.tools[tool_name] # "None"
    THEN [r EXCEPT !.objects = @ + 1, !.instances[tool_name] = r.objects + 1,
                   !.created = Append(@, r.tools[tool_name])]
    ELSE r

\* ToolRegistry.get_instance: the registry after the call; the value returned
\* is its instances[tool_name]
GetInstance(r, tool_name) ==
    IF r.instances[tool_name] = 0 /\ r.tools[tool_name] # "None"
    THEN [r EXCEPT !.objects = @ + 1, !.instances[tool_name] = r.objects + 1,
                   !.created = Append(@, r.tools[tool_name])]
    ELSE r

\* what the LLM transport raises: run_streaming catches the first three and
\* yields an {"type": "error"} chunk, anything else passes through it
AdapterCaught == {"RuntimeError", "ValueError", "ConnectionError"}
TransportErrors == AdapterCaught \cup {"HTTPError"}

\* the turns the transport failure is followed on
FailScripts ==
    { TextScript(Cut(Hi, i, 2)) : i \in 0..2 }
    \cup { ToolScript(fb, Cut(Hi, i, 2)) : fb \in {<<>>, <<Hi>>}, i \in 0..2 }

\* status and committed are those of the placeholder row of the turn
IdleFail == [phase |-> "idle", script |-> <<>>, pc |-> 0, L |-> StreamLocals,
             exc |-> "none", status |-> "pending", committed |-> FALSE]

(***************************************************************************)
(* The messages of an LLM call.  send_message_streaming collects the       *)
(* context messages from the database; run_streaming puts the system       *)
(* prompt in front, keeps all but the last as _history_messages and hands  *)
(* the last to the ADK runner as the new message; generate_content_async   *)
(* converts the contents of the ADK request, which are the events of the   *)
(* ADK session, and puts _history_messages in front of them.  A message is *)
(* a role with a content; the content of a stored message is its id.       *)
(***************************************************************************)
\* DEFAULT_SYSTEM_PROMPT, or the user's own
SystemPromptMessage == [role |-> "system", content |-> <<0>>]

ChatEntry(m) == [role |-> m.role, content |-> <<m.id>>]

\* step 2 of the context: the effective messages, without the placeholder
EffectiveMessages(rows, assistant_message_id) ==
    SelectSeq(rows, LAMBDA m : /\ ~m.is_deleted
                               /\ ~m.is_summarized
                               /\ m.id # assistant_message_id)

\* steps 3 and 4: the latest summary message, then the effective messages
ContextMessages(rows, assistant_message_id, skip_user_message, content) ==
    LET effective == EffectiveMessages(rows, assistant_message_id)
        summaries == {k \in 1..Len(rows) : rows[k].is_summary /\ ~rows[k].is_deleted}
        head == IF summaries = {} THEN <<>>
                ELSE <<[role |-> "system", content |-> <<rows[MaxOf(summaries)].id>>]>>
        body == [k \in 1..Len(effective) |-> ChatEntry(effective[k])]
    IN head \o (IF skip_user_message THEN body
                ELSE SubSeq(body, 1, Len(body) - 1)
                         \o <<[role |-> "user", content |-> content]>>)

\* run_streaming: the system messages are removed and the system prompt is put first
WithSystemPrompt(messages) ==
    <<SystemPromptMessage>> \o SelectSeq(messages, LAMBDA m : m.role # "system")

\* _convert_request_to_our_format: consecutive text messages of one role are merged
RECURSIVE MergeTexts(_)
MergeTexts(ms) ==
    IF Len(ms) <= 1 THEN ms
    ELSE LET front == MergeTexts(SubSeq(ms, 1, Len(ms) - 1))
             last == ms[Len(ms)]
         IN IF front[Len(front)].role = last.role
            THEN [front EXCEPT ![Len(front)].content = @ \o last.content]
            ELSE Append(front, last)

\* generate_content_async: our_messages = history + our_messages
LlmMessages(history, contents) == history \o MergeTexts(contents)

\* SimpleSessionService of a process that has served no turn; edited, rows and
\* assistant_message_id record what the latest LLM call started from
InitAdk == [events |-> <<>>, prompt |-> <<>>, rows |-> <<>>,
            assistant_message_id |-> 0, edited |-> 0]

\* no turn is at the threshold test
IdleThreshold == [phase |-> "idle", current_context_tokens |-> 0,
                  max_context_length |-> 0, should_generate_summary |-> FALSE]

(***************************************************************************)
(* The agent loop.  ADKAgentAdapter keeps max_iterations and hands the     *)
(* turn to the ADK runner, which calls the LLM adapter, dispatches the     *)
(* tools the reply asks for and calls the LLM again, until a reply asks    *)
(* for no tool.  _run_adk_runner_streaming passes the runner's events on.  *)
(***************************************************************************)
ToolNames == {"search", "calculator"}

\* the adapter after __init__, at the start of a turn
InitLoop == [phase |-> "llm", max_iterations |-> max_iterations, llm_calls |-> 0,
             dispatched |-> <<>>, errors |-> 0]

(***************************************************************************)
(* The MCP servers of tools_server.py.  An argument is described by the    *)
(* kind of its JSON value: absent, the empty string, a string that is not  *)
(* a number, a string of digits, a non-zero integer, the integer 0.        *)
(***************************************************************************)
Servers == {"calculator", "weather", "search", "knowledge_search"}

ValueKinds == {"absent", "empty", "text", "digits", "integer", "zero"}

\* the JSON type of a value
JsonType(kind) == IF kind \in {"integer", "zero"} THEN "integer" ELSE "string"

\* get_tools: the name and the inputSchema each server declares
ToolOf(server) ==
    CASE server = "calculator" -> "calculate"
      [] server = "weather" -> "get_weather"
      [] server = "search" -> "search_web"
      [] server = "knowledge_search" -> "search_knowledge_base"

Properties(server) ==
    CASE server = "calculator" -> [expression |-> "string"]
      [] server = "weather" -> [city |-> "string", unit |-> "string"]
      [] server = "search" ->
            [query |-> "string", num_results |-> "string", search_type |-> "string"]
      [] server = "knowledge_search" ->
            [query |-> "string", kb_id |-> "integer", top_k |-> "integer"]

Required(server) ==
    CASE server = "calculator" -> {"expression"}
      [] server = "weather" -> {"city"}
      [] server = "search" -> {"query"}
      [] server = "knowledge_search" -> {"query", "kb_id"}

\* the arguments of a request conform to the declared inputSchema
Conforms(server, arguments) ==
    /\ \A p \in Required(server) : arguments[p] # "absent"
    /\ \A p \in DOMAIN arguments :
          arguments[p] # "absent" => JsonType(arguments[p]) = Properties(server)[p]

\* Python: not value
Falsy(kind) == kind \in {"absent", "empty", "zero"}

\* Python: int(value) raises
IntRaises(kind) == kind \in {"empty", "text"}

\* what call_tool of a server tests before it awaits the tool's execute
PassesChecks(server, arguments) ==
    CASE server = "calculator" -> ~Falsy(arguments.expression)
      [] server = "weather" -> ~Falsy(arguments.city)
      [] server = "search" -> ~Falsy(arguments.query)
      [] server = "knowledge_search" ->
            /\ ~Falsy(arguments.query)
            /\ ~Falsy(arguments.kb_id)
            /\ ~IntRaises(arguments.kb_id)
            /\ ~IntRaises(arguments.top_k)

\* MCPServer._handle_tools_call and call_tool of the server: was the tool body
\* executed, and the isError of the ToolCallResult
CallTool(server, name, arguments, body_ok) ==
    IF name # ToolOf(server) THEN [executed |-> FALSE, isError |-> TRUE]
    ELSE IF ~PassesChecks(server, arguments) THEN [executed |-> FALSE, isError |-> TRUE]
    ELSE [executed |-> TRUE, isError |-> ~body_ok]

\* execute_mcp_tool: what the ADK runner gets back for the LLM; every exception
\* is caught and turned into a text
ExecuteMcpTool(result) ==
    [raised |-> FALSE, error_text |-> result.isError]

Requests ==
    UNION { { [server |-> sv, name |-> n, arguments |-> a, body_ok |-> ok] :
                 n \in {ToolOf(sv), "unknown"},
                 a \in [DOMAIN Properties(sv) -> ValueKinds],
                 ok \in BOOLEAN } :
            sv \in Servers }

IdleHub == [phase |-> "idle", request |-> [server |-> "calculator", name |-> "calculate",
                                           arguments |-> [expression |-> "absent"],
                                           body_ok |-> TRUE],
            result |-> [executed |-> FALSE, isError |-> FALSE],
            output |-> [raised |-> FALSE, error_text |-> FALSE],
            L |-> StreamLocals]

(***************************************************************************)
(* Initial state: the server has started on a database that holds the      *)
(* session, with or without stored history; nobody is connected.           *)
(***************************************************************************)
InitChat(n, tok) ==
    /\ msgs = SeedMsgs(n, tok)
    /\ sess = [message_count |-> n,
               current_context_tokens |-> calculate_current_context_tokens(SeedMsgs(n, tok)),
               status |-> "active"]
    /\ nextId = n + 1
    /\ turn = [t \in Turns |-> IdleTurn]
    /\ sent = [t \in Turns |-> <<>>]
    /\ mgr = [active_connections |-> 0, heartbeat_tasks |-> 0,
              stop_generation_flags |-> FALSE]
    /\ socks = [s \in SockIds |->
                  [state |-> "none", endpoint |-> "none", heartbeat |-> "none",
                   infos |-> 0]]
    /\ hist = [count |-> 0, turns |-> {}, overlap |-> {}, edited |-> 0]

Init ==
    /\ \E n \in SeedSizes, tok \in TokenValues :
          /\ n = 0 => tok = 0
          /\ InitChat(n, tok)
    /\ rl = InitRate
    /\ st = IdleStream
    /\ adk = InitAdk
    /\ th = IdleThreshold
    /\ loop = InitLoop
    /\ hub = IdleHub
    /\ fl = IdleFail
    /\ au = InitAuth
    /\ tt = InitTitle
    /\ rg = InitRegistry
    /\ tc = InitToolCalls
    /\ sh = InitShared

\* the server on a database without stored history: the middleware stack alone
InitFresh ==
    /\ InitChat(0, 0)
    /\ rl = InitRate
    /\ st = IdleStream
    /\ adk = InitAdk
    /\ th = IdleThreshold
    /\ loop = InitLoop
    /\ hub = IdleHub
    /\ fl = IdleFail
    /\ au = InitAuth
    /\ tt = InitTitle
    /\ rg = InitRegistry
    /\ tc = InitToolCalls
    /\ sh = InitShared

\* the streaming loop of one turn, entered with one of the deliveries of the agent
InitStream ==
    /\ InitChat(0, 0)
    /\ rl = InitRate
    /\ \E sc \in Scripts : st = [phase |-> "streaming", script |-> sc, pc |-> 0,
                                  L |-> StreamLocals]
    /\ adk = InitAdk
    /\ th = IdleThreshold
    /\ loop = InitLoop
    /\ hub = IdleHub
    /\ fl = IdleFail
    /\ au = InitAuth
    /\ tt = InitTitle
    /\ rg = InitRegistry
    /\ tc = InitToolCalls
    /\ sh = InitShared

\* a turn reaches the threshold test with a session and a model of any size
InitThreshold ==
    /\ InitChat(0, 0)
    /\ rl = InitRate
    /\ st = IdleStream
    /\ adk = InitAdk
    /\ loop = InitLoop
    /\ hub = IdleHub
    /\ fl = IdleFail
    /\ au = InitAuth
    /\ tt = InitTitle
    /\ rg = InitRegistry
    /\ tc = InitToolCalls
    /\ sh = InitShared
    /\ \E c \in 0..MaxTokens, m \in 0..MaxLength :
          th = [phase |-> "start", current_context_tokens |-> c,
                max_context_length |-> m, should_generate_summary |-> FALSE]

\* a turn has flushed its placeholder and entered the streaming loop
InitFail ==
    /\ InitChat(0, 0)
    /\ rl = InitRate
    /\ st = IdleStream
    /\ adk = InitAdk
    /\ th = IdleThreshold
    /\ loop = InitLoop
    /\ hub = IdleHub
    /\ au = InitAuth
    /\ tt = InitTitle
    /\ rg = InitRegistry
    /\ tc = InitToolCalls
    /\ sh = InitShared
    /\ \E sc \in FailScripts :
          fl = [IdleFail EXCEPT !.phase = "streaming", !.script = sc]

\* the LLM has asked for a tool: any tools/call request to any of the servers
InitHub ==
    /\ InitChat(0, 0)
    /\ rl = InitRate
    /\ st = IdleStream
    /\ adk = InitAdk
    /\ th = IdleThreshold
    /\ loop = InitLoop
    /\ fl = IdleFail
    /\ au = InitAuth
    /\ tt = InitTitle
    /\ rg = InitRegistry
    /\ tc = InitToolCalls
    /\ sh = InitShared
    /\ \E r \in Requests : hub = [IdleHub EXCEPT !.phase = "asked", !.request = r]

(***************************************************************************)
(* POST /sessions/{id}/messages: create_user_message commits the user      *)
(* message and the incremented message_count, then the reply is scheduled  *)
(* as a background task.  For a deleted session create_user_message raises *)
(* and nothing is scheduled.                                               *)
(***************************************************************************)
send_message(t) ==
    /\ turn[t].task = "idle"
    /\ t > 1 => turn[t - 1].task # "idle"
    /\ sess.status # "deleted"
    /\ msgs' = Append(msgs, Msg(nextId, "user", 0, "completed", 0, TRUE))
    /\ sess' = [sess EXCEPT !.message_count = @ + 1]
    /\ nextId' = nextId + 1
    /\ turn' = [turn EXCEPT ![t].task = "posted"]
    /\ UNCHANGED <<sent, mgr, socks, hist>>
    /\ UNCHANGED otherVars

(***************************************************************************)
(* The background task starts: it clears the stop flag and runs the        *)
(* generator to its first yield, then the body of the async for runs on    *)
(* that frame up to the await of the send.  model_ok: get_model_by_id      *)
(* finds an active model.                                                  *)
(***************************************************************************)
\* the locals at the first yield and the frame yielded there
FirstYield(r, model_ok) ==
    IF sess.status = "deleted"
    THEN LET nx == GetNextEventId(ERROR, r.current_event_type, r.event_id)
         IN [r |-> [r EXCEPT !.gen = "returned", !.event_id = nx[1],
                             !.current_event_type = nx[2]],
             f |-> Envelope(ERROR, nx[1], STATUS_ERROR, TRUE),
             flushed |-> FALSE]
    ELSE IF ~model_ok
    THEN [r |-> [r EXCEPT !.gen = "returned"],
          f |-> Envelope(ERROR, r.event_id, STATUS_ERROR, TRUE),
          flushed |-> FALSE]
    ELSE LET nx == GetNextEventId(MESSAGE_START, r.current_event_type, r.event_id)
         IN [r |-> [r EXCEPT !.gen = "started",
                             !.assistant_message_id = nextId,
                             !.message_count = sess.message_count + 1,
                             !.current_context_tokens = sess.current_context_tokens,
                             !.event_id = nx[1], !.current_event_type = nx[2],
                             !.message_index = @ + 1],
             f |-> Envelope(MESSAGE_START, nx[1], STATUS_PENDING, FALSE),
             flushed |-> TRUE]

TaskStart(t, model_ok) ==
    /\ turn[t].task = "posted"
    /\ LET y == FirstYield([turn[t] EXCEPT !.task = "running"], model_ok)
           ms == IF y.flushed THEN Append(msgs, PlaceholderRow(nextId, t)) ELSE msgs
           o == LoopBody(t, y.r, y.f, ClearStop(mgr), socks, sent, ms)
       IN /\ turn' = [turn EXCEPT ![t] = o.turn]
          /\ mgr' = o.mgr
          /\ socks' = o.socks
          /\ sent' = o.sent
          /\ msgs' = o.msgs
          /\ nextId' = IF y.flushed THEN nextId + 1 ELSE nextId
    /\ LET others == {u \in Turns \ {t} : turn[u].task = "running"}
       IN hist' = [hist EXCEPT !.overlap = IF others = {} THEN @
                                           ELSE @ \cup others \cup {t}]
    /\ UNCHANGED sess
    /\ UNCHANGED otherVars

(***************************************************************************)
(* The task resumes the generator after the send of its first frame.       *)
(***************************************************************************)
\* the columns of AIModel: the attributes a model_config object has
AIModelColumns ==
    {"id", "name", "model_id", "provider", "base_url", "description",
     "max_tokens", "max_context_length", "supports_streaming", "supports_tools",
     "is_active", "icon_url", "display_order", "config"}

\* AIClientFactory.create_client(self, provider, model_id, base_url=None, **kwargs):
\* a call binds when it passes the parameters that have no default
CreateClientBinds(keywords) == {"provider", "model_id"} \subseteq keywords

\* FACTORY.create_client(provider=..., model_name=..., base_url=...) of
\* send_message_streaming
StreamingClientKeywords == {"provider", "model_name", "base_url"}

\* the attributes of model_config that generate_session_summary reads to build
\* its client
SummaryClientAttributes == {"provider", "model_name", "api_base"}

\* generate_session_summary: the messages it would summarize and keep, as the
\* database session of turn t sees them
SummaryCandidates(rows, t) ==
    SelectSeq(Visible(rows, t),
              LAMBDA m : ~m.is_deleted /\ ~m.is_summarized /\ ~m.is_summary)

\* generate_session_summary up to its LLM call: "none" when it returns None
\* (not more than KeepRecent messages), "raise" when it raises (the session is
\* gone, or model_config lacks an attribute it reads), "call" when it gets to
\* the LLM call
SummaryOutcome(rows, t) ==
    IF sess.status = "deleted" THEN "raise"
    ELSE IF Len(SummaryCandidates(rows, t)) <= KeepRecent THEN "none"
    ELSE IF SummaryClientAttributes \subseteq AIModelColumns THEN "call"
    ELSE "raise"

\* From the resumption to the next suspension of the generator.  After an
\* error frame the generator returns and the task's loop ends.  After
\* message_start it checks the summary threshold, may call
\* generate_session_summary, collects the context messages and creates the
\* client; an exception of these lines is outside the generator's try and
\* reaches the except clause of the task.
TaskResume(t) ==
    /\ turn[t].task = "running"
    /\ LET r == turn[t]
           here == [mgr |-> mgr, socks |-> socks, sent |-> sent]
           called == r.current_context_tokens >= SummaryThreshold
           outcome == IF called THEN SummaryOutcome(msgs, t) ELSE "none"
           r2 == [r EXCEPT !.summary_called = called,
                           !.summary_selected = called /\ outcome # "none"
                                                /\ sess.status # "deleted"]
           o == IF r.gen = "returned" THEN Finally(t, r, "done", here, msgs)
                ELSE IF outcome = "raise" THEN Except(t, r2, "raised", here, msgs)
                ELSE IF outcome = "call"
                THEN [turn |-> [r2 EXCEPT !.gen = "summarizing"], mgr |-> mgr,
                      socks |-> socks, sent |-> sent, msgs |-> msgs]
                ELSE IF CreateClientBinds(StreamingClientKeywords)
                THEN [turn |-> [r2 EXCEPT !.gen = "streaming"], mgr |-> mgr,
                      socks |-> socks, sent |-> sent, msgs |-> msgs]
                ELSE Except(t, r2, "raised", here, msgs)
       IN /\ turn[t].gen \in {"returned", "started"}
          /\ turn' = [turn EXCEPT ![t] = o.turn]
          /\ mgr' = o.mgr
          /\ socks' = o.socks
          /\ sent' = o.sent
          /\ msgs' = o.msgs
    /\ UNCHANGED <<sess, nextId, hist>>
    /\ UNCHANGED otherVars

(***************************************************************************)
(* Message and session operations of ChatService behind their endpoints.   *)
(* Each runs in a database session of its own: it sees committed rows.     *)
(***************************************************************************)
IsCommitted(i) == i \in 1..Len(msgs) /\ msgs[i].committed

\* edit_message with only its step 3: the original message alone is soft-deleted
SoftDeleteOriginal(rows, i) == [rows EXCEPT ![i].is_deleted = TRUE]

\* the rows after edit_message of row i: steps 2 to 4 of the function
EditedRows(rows, i) ==
    LET restore == rows[i].is_summarized
        live == {k \in 1..Len(rows) : rows[k].committed /\ ~rows[k].is_deleted}
        summaries == {k \in live : rows[k].is_summary}
        summary == IF summaries = {} THEN 0
                   ELSE CHOOSE k \in summaries : \A j \in summaries : k <= j
    IN [k \in 1..Len(rows) |->
          IF ~rows[k].committed THEN rows[k]
          ELSE [rows[k] EXCEPT
                  !.is_summarized = IF restore /\ k <= i THEN FALSE ELSE @,
                  !.is_deleted = IF k = i \/ (k > i /\ ~@) \/ (restore /\ k = summary)
                                 THEN TRUE ELSE @]]

\* PATCH /messages/{id}: ChatService.edit_message
edit_message(i) ==
    /\ IsCommitted(i)
    /\ LET after == EditedRows(msgs, i)
       IN /\ msgs' = after
          /\ sess' = [sess EXCEPT
                        !.message_count =
                            Cardinality({k \in 1..Len(after) :
                                after[k].committed /\ ~after[k].is_deleted}),
                        !.current_context_tokens =
                            calculate_current_context_tokens(Committed(after))]
    /\ hist' = [hist EXCEPT !.edited = i]
    /\ UNCHANGED <<nextId, turn, sent, mgr, socks>>
    /\ UNCHANGED otherVars

\* DELETE /messages/{id}: ChatService.delete_message
delete_message(i) ==
    /\ IsCommitted(i)
    /\ msgs' = [msgs EXCEPT ![i].is_deleted = TRUE]
    /\ UNCHANGED <<sess, nextId, turn, sent, mgr, socks, hist>>
    /\ UNCHANGED otherVars

\* the rows after generate_session_summary has its summary text: all but the
\* KeepRecent latest candidates are marked is_summarized and the summary
\* message is added
SummarizedRows(rows, id) ==
    LET cand == SummaryCandidates(rows, 0)
        old == {cand[k].id : k \in 1..(Len(cand) - KeepRecent)}
        summary == [Msg(id, "system", 0, "sent", 0, TRUE) EXCEPT !.is_summary = TRUE]
    IN Append([k \in 1..Len(rows) |->
                  IF rows[k].id \in old THEN [rows[k] EXCEPT !.is_summarized = TRUE]
                  ELSE rows[k]],
              summary)

\* ChatService.generate_session_summary from the reply of its LLM call on
generate_session_summary ==
    /\ sess.status # "deleted"
    /\ Len(SummaryCandidates(msgs, 0)) > KeepRecent
    /\ msgs' = SummarizedRows(msgs, nextId)
    /\ nextId' = nextId + 1
    /\ UNCHANGED <<sess, turn, sent, mgr, socks, hist>>
    /\ UNCHANGED otherVars

\* DELETE /sessions/{id}: ChatService.delete_session
delete_session ==
    /\ sess.status # "deleted"
    /\ sess' = [sess EXCEPT !.status = "deleted"]
    /\ UNCHANGED <<msgs, nextId, turn, sent, mgr, socks, hist>>
    /\ UNCHANGED otherVars

(***************************************************************************)
(* The WebSocket endpoint /ws/chat and the heartbeat task.                 *)
(***************************************************************************)
\* websocket_chat_endpoint up to its receive loop: ConnectionManager.connect
\* accepts the socket, registers it and its new heartbeat task under the user
\* id, then the welcome frame is sent
connect(s) ==
    /\ socks[s].state = "none"
    /\ s > 1 => socks[s - 1].state # "none"
    /\ socks' = [socks EXCEPT ![s].state = "open", ![s].endpoint = "running",
                              ![s].heartbeat = "running"]
    /\ mgr' = [mgr EXCEPT !.active_connections = s, !.heartbeat_tasks = s]
    /\ UNCHANGED <<msgs, sess, nextId, turn, sent, hist>>
    /\ UNCHANGED otherVars

\* the client closes the socket, or the network drops it
client_close(s) ==
    /\ socks[s].state = "open"
    /\ socks' = [socks EXCEPT ![s].state = "closed"]
    /\ UNCHANGED <<msgs, sess, nextId, turn, sent, mgr, hist>>
    /\ UNCHANGED otherVars

\* receive_text raises WebSocketDisconnect: the loop ends and the finally
\* clause calls manager.disconnect(user_id)
endpoint_exit(s) ==
    /\ socks[s].endpoint = "running"
    /\ socks[s].state = "closed"
    /\ mgr' = Disconnect(mgr, socks).mgr
    /\ socks' = [Disconnect(mgr, socks).socks EXCEPT ![s].endpoint = "done"]
    /\ UNCHANGED <<msgs, sess, nextId, turn, sent, hist>>
    /\ UNCHANGED otherVars

\* ConnectionManager._heartbeat after a sleep: a ping on its own socket; when
\* the send fails the task disconnects the user and ends
heartbeat(s) ==
    /\ socks[s].heartbeat = "running"
    /\ IF socks[s].state = "open"
       THEN UNCHANGED <<mgr, socks>>
       ELSE /\ mgr' = Disconnect(mgr, socks).mgr
            /\ socks' = [Disconnect(mgr, socks).socks EXCEPT ![s].heartbeat = "done"]
    /\ UNCHANGED <<msgs, sess, nextId, turn, sent, hist>>
    /\ UNCHANGED otherVars

\* the endpoint receives {"type": "stop_generation", "session_id": ...}:
\* set_stop_generation, then the notice "正在停止生成..." goes to the user's
\* registered connection.  When that send fails the user is disconnected and
\* the exception either ends the receive loop (leaves: WebSocketDisconnect,
\* RuntimeError) or is answered and the loop goes on.
stop_generation(s, leaves) ==
    /\ socks[s].endpoint = "running"
    /\ socks[s].state = "open"
    /\ hist.count < MaxStops
    /\ LET c == mgr.active_connections
           flagged == [mgr EXCEPT !.stop_generation_flags = TRUE]
           d == Disconnect(flagged, socks)
       IN IF c = 0 THEN mgr' = flagged /\ socks' = socks
          ELSE IF socks[c].state = "open"
          THEN mgr' = flagged /\ socks' = [socks EXCEPT ![c].infos = @ + 1]
          ELSE /\ mgr' = d.mgr
               /\ socks' = IF leaves THEN [d.socks EXCEPT ![s].endpoint = "done"]
                           ELSE d.socks
    /\ hist' = [hist EXCEPT !.count = @ + 1,
                            !.turns = @ \cup {t \in Turns : turn[t].task = "running"}]
    /\ UNCHANGED <<msgs, sess, nextId, turn, sent>>
    /\ UNCHANGED otherVars

(***************************************************************************)
(* An HTTP request of user u from address addr to a rate-limited path.     *)
(***************************************************************************)
http_request(u, addr, token) ==
    /\ rl.calls < MaxCalls
    /\ LET jwt == JWTDispatch(u, token)
           key == get_rate_limit_key(jwt.state, addr)
           c == check_rate_limit(rl.store, key, rl.now)
           entry == [user |-> u, addr |-> addr, token |-> token]
       IN IF ~jwt.passed
          THEN rl' = [rl EXCEPT !.calls = @ + 1,
                                !.answered = @ \cup {entry @@
                                    [key |-> <<"none", "none">>, status |-> 401]}]
          ELSE rl' = [rl EXCEPT !.calls = @ + 1,
                                !.store = c.store,
                                !.served[u][addr][rl.now] =
                                    IF c.allowed THEN @ + 1 ELSE @,
                                !.answered = @ \cup {entry @@
                                    [key |-> key,
                                     status |-> IF c.allowed THEN 200 ELSE 429]}]
    /\ UNCHANGED <<chatVars, exceptRl>>

\* a second passes
Tick ==
    /\ rl.now < MaxClock
    /\ rl' = [rl EXCEPT !.now = @ + 1]
    /\ UNCHANGED <<chatVars, exceptRl>>

(***************************************************************************)
(* The streaming loop of send_message_streaming: async for chunk in        *)
(* agent.run_streaming(...), then the finalization after the loop.         *)
(***************************************************************************)
agent_chunk ==
    /\ st.phase = "streaming"
    /\ st.pc < Len(st.script)
    /\ st' = [st EXCEPT !.pc = @ + 1, !.L = OnItem(st.L, st.script[st.pc + 1])]
    /\ UNCHANGED <<chatVars, exceptSt>>

stream_end ==
    /\ st.phase = "streaming"
    /\ st.pc = Len(st.script)
    /\ st' = [st EXCEPT !.phase = "done", !.L = Finalize(st.L)]
    /\ UNCHANGED <<chatVars, exceptSt>>

(***************************************************************************)
(* The background task of a turn from the context messages on, as it runs  *)
(* once it has a client: the placeholder is flushed, the context messages  *)
(* are collected (skip_user_message=True, as the endpoint passes it), the  *)
(* ADK runner appends the new message to the session of the chat session   *)
(* and calls the LLM; the reply is streamed in one frame and a closing     *)
(* empty one, each appended to the ADK session; the placeholder is         *)
(* completed and committed.                                                *)
(***************************************************************************)
llm_turn(t) ==
    /\ turn[t].task = "posted"
    /\ sess.status # "deleted"
    /\ LET rows == Committed(msgs)
           messages == WithSystemPrompt(ContextMessages(rows, nextId, TRUE, <<>>))
           history == SubSeq(messages, 1, Len(messages) - 1)
           new_message == messages[Len(messages)]
           events == Append(adk.events, new_message)
           reply == <<[role |-> "model", content |-> <<nextId>>],
                      [role |-> "model", content |-> <<>>]>>
           after == Append(msgs, Msg(nextId, "assistant", 0, "completed", 0, TRUE))
       IN /\ adk' = [events |-> events \o reply,
                     prompt |-> LlmMessages(history, events),
                     rows |-> rows, assistant_message_id |-> nextId,
                     edited |-> hist.edited]
          /\ msgs' = after
          /\ sess' = [sess EXCEPT !.message_count = @ + 1,
                                  !.current_context_tokens =
                                      calculate_current_context_tokens(Committed(after))]
    /\ nextId' = nextId + 1
    /\ turn' = [turn EXCEPT ![t].task = "exited", ![t].exit = "done",
                            ![t].assistant_message_id = nextId]
    /\ UNCHANGED <<sent, mgr, socks, hist, exceptAdk>>

\* the server process is restarted: the agent caches and the ADK sessions are gone
restart ==
    /\ adk.events # <<>>
    /\ \A t \in Turns : turn[t].task # "posted"
    /\ adk' = [adk EXCEPT !.events = <<>>]
    /\ UNCHANGED <<chatVars, exceptAdk>>

(***************************************************************************)
(* The tool calls of one turn.  A reply of the LLM holds one or more       *)
(* function calls, each a tool_calls chunk; the runner executes them and   *)
(* delivers one function response for each, in call order, each a          *)
(* tool_result chunk.                                                      *)
(***************************************************************************)
function_call(tool_name) ==
    /\ tc.phase = "calls"
    /\ tc.L.tool_sequence_counter < MaxToolCalls
    /\ Len(tc.awaiting) < MaxParallel
    /\ tc' = [tc EXCEPT !.L = OnToolCalls(tc.L, tool_name),
                        !.awaiting = Append(@, tc.L.tool_sequence_counter + 1),
                        !.updates = Append(@, 0)]
    /\ UNCHANGED <<chatVars, exceptTc>>

\* the runner has executed the tools of the reply
tools_complete ==
    /\ tc.phase = "calls"
    /\ tc.awaiting # <<>>
    /\ tc' = [tc EXCEPT !.phase = "responses"]
    /\ UNCHANGED <<chatVars, exceptTc>>

function_response ==
    /\ tc.phase = "responses"
    /\ LET call == Head(tc.awaiting)
           tool_name == tc.L.tool_rows[call].tool_name
           i == MatchingCall(tc.L.timeline, tool_name)
           after == OnToolResult(tc.L, tool_name)
       IN tc' = [tc EXCEPT
                   !.L = after,
                   !.awaiting = Tail(@),
                   !.phase = IF Len(tc.awaiting) = 1 THEN "calls" ELSE "responses",
                   !.answers = Append(@, [call |-> call,
                                          tool_id |-> IF i = 0 THEN 0
                                                      ELSE tc.L.timeline[i].tool_id]),
                   !.updates = [k \in 1..Len(tc.updates) |->
                                   IF after.tool_rows[k].status # tc.L.tool_rows[k].status
                                   THEN tc.updates[k] + 1 ELSE tc.updates[k]]]
    /\ UNCHANGED <<chatVars, exceptTc>>

\* the reply without function calls has ended: the code after the loop
finalize_turn ==
    /\ tc.phase = "calls"
    /\ tc.awaiting = <<>>
    /\ tc' = [tc EXCEPT !.phase = "done", !.L = Finalize(tc.L)]
    /\ UNCHANGED <<chatVars, exceptTc>>

(***************************************************************************)
(* Turns of one session and model and their LLM calls.                     *)
(***************************************************************************)
run_streaming(t) ==
    /\ sh.state[t] = "new"
    /\ t > 1 => sh.state[t - 1] # "new"
    /\ sh' = [sh EXCEPT !.state[t] = "running", !.adapter = TrackTurn(t)]
    /\ UNCHANGED <<chatVars, exceptSh>>

\* generate_content_async for a call of turn t: the streamed HTTP call, whose
\* last chunk carries the token counts and gives one row; when the stream had
\* no content (a reply that only asks for tools) a second, non-streamed HTTP
\* call follows
generate_content_async(t, content) ==
    /\ sh.state[t] = "running"
    /\ sh.calls[t] < MaxTurnCalls
    /\ sh' = [sh EXCEPT !.calls[t] = @ + 1,
                        !.http[t] = IF content THEN @ + 1 ELSE @ + 2,
                        !.rows = Append(@, ModelInvocationRow(sh.adapter, t)),
                        !.adapter.llm_sequence_counter = @ + 1]
    /\ UNCHANGED <<chatVars, exceptSh>>

turn_ends(t) ==
    /\ sh.state[t] = "running"
    /\ sh.calls[t] > 0
    /\ sh' = [sh EXCEPT !.state[t] = "ended"]
    /\ UNCHANGED <<chatVars, exceptSh>>

(***************************************************************************)
(* The calls of a ToolRegistry.                                            *)
(***************************************************************************)
register(tool_class) ==
    /\ rg' = [rg EXCEPT !.tools[GetName(tool_class)] = tool_class,
                        !.last = [NoCall EXCEPT !.op = "register",
                                                !.name = GetName(tool_class)]]
    /\ UNCHANGED <<chatVars, exceptRg>>

unregister(tool_name) ==
    /\ rg' = IF rg.tools[tool_name] # "None"
             THEN [rg EXCEPT !.tools[tool_name] = "None",
                             !.instances[tool_name] = 0,
                             !.returned[tool_name] = {},
                             !.last = [NoCall EXCEPT !.op = "unregister",
                                                     !.name = tool_name]]
             ELSE [rg EXCEPT !.last = [NoCall EXCEPT !.op = "unregister",
                                                     !.name = tool_name]]
    /\ UNCHANGED <<chatVars, exceptRg>>

get_tool(tool_name) ==
    /\ rg' = [rg EXCEPT !.last = [NoCall EXCEPT
                                    !.op = "get_tool", !.name = tool_name,
                                    !.registered = rg.tools[tool_name] # "None",
                                    !.tool = rg.tools[tool_name]]]
    /\ UNCHANGED <<chatVars, exceptRg>>

get_instance(tool_name) ==
    /\ LET r == GetInstance(rg, tool_name)
           result == r.instances[tool_name]
       IN /\ r.objects <= MaxObjects
          /\ rg' = [r EXCEPT
                      !.returned[tool_name] = IF result = 0 THEN @ ELSE @ \cup {result},
                      !.last = [NoCall EXCEPT
                                  !.op = "get_instance", !.name = tool_name,
                                  !.registered = rg.tools[tool_name] # "None",
                                  !.cached = rg.instances[tool_name] # 0,
                                  !.instance = result]]
    /\ UNCHANGED <<chatVars, exceptRg>>

(***************************************************************************)
(* Turns that complete, edits and renames, and the title task.             *)
(***************************************************************************)
\* a turn, from the POST to the end of the generator: create_user_message and
\* the placeholder each add one to message_count, the turn is committed, and
\* asyncio.create_task(generate_title) follows when message_count is 2
complete_turn ==
    /\ tt.completed < MaxCompleted
    /\ LET k == tt.completed + 1
           count == tt.message_count + 2
       IN tt' = [tt EXCEPT !.completed = k,
                           !.live = Append(@, k),
                           !.message_count = count,
                           !.scheduled = IF count = 2 THEN @ \cup {k} ELSE @,
                           !.waiting = IF count = 2 THEN @ \cup {k} ELSE @]
    /\ UNCHANGED <<chatVars, exceptTt>>

\* ChatService.generate_title as the task created after turn k
generate_title(k) ==
    /\ k \in tt.waiting
    /\ tt' = [tt EXCEPT !.waiting = @ \ {k},
                        !.title = IF tt.message_count # 2 \/ Len(tt.live) < 1 THEN @
                                  ELSE GeneratedTitle(k)]
    /\ UNCHANGED <<chatVars, exceptTt>>

\* edit_message of the user message of the j-th live turn: it and the later
\* messages are soft-deleted, message_count is the count of the live ones
edit_user_message(j) ==
    /\ j \in 1..Len(tt.live)
    /\ tt' = [tt EXCEPT !.live = SubSeq(@, 1, j - 1),
                        !.message_count = 2 * (j - 1)]
    /\ UNCHANGED <<chatVars, exceptTt>>

\* PUT /sessions/{id}: update_session(title=...)
update_session ==
    /\ tt.title # <<"user">>
    /\ tt' = [tt EXCEPT !.title = <<"user">>]
    /\ UNCHANGED <<chatVars, exceptTt>>

(***************************************************************************)
(* Login, refresh, logout, expiry, and a request with an access token.     *)
(***************************************************************************)
login ==
    /\ au.issued < MaxIssued
    /\ au' = GenerateTokens(au)
    /\ UNCHANGED <<chatVars, exceptAu>>

\* a refresh token that is not in Redis raises ValueError; the old token is
\* deleted before the new ones are generated
refresh_access_token(refresh_token) ==
    /\ refresh_token \in au.store
    /\ au.issued < MaxIssued
    /\ au' = GenerateTokens(Purge(au, refresh_token, "rotation"))
    /\ UNCHANGED <<chatVars, exceptAu>>

logout(refresh_token) ==
    /\ refresh_token \in au.store
    /\ au' = Purge(au, refresh_token, "logout")
    /\ UNCHANGED <<chatVars, exceptAu>>

\* the key of a refresh token reaches its time to live
expire(refresh_token) ==
    /\ refresh_token \in au.store
    /\ au' = Purge(au, refresh_token, "expiry")
    /\ UNCHANGED <<chatVars, exceptAu>>

authorized_request(refresh_token_id, scheme, path) ==
    /\ refresh_token_id \in 1..au.issued
    /\ au.requests < MaxCalls
    /\ LET m == JWTMiddleware(path, scheme, refresh_token_id, au.store)
       IN au' = [au EXCEPT !.requests = @ + 1,
                           !.request = [refresh_token_id |-> refresh_token_id,
                                        scheme |-> scheme, path |-> path,
                                        purged |-> refresh_token_id \in au.purged,
                                        middleware |-> m,
                                        status_code |-> IF m = "401" THEN 401
                                                        ELSE GetCurrentUser(scheme)]]
    /\ UNCHANGED <<chatVars, exceptAu>>

(***************************************************************************)
(* The streaming loop of a turn whose LLM transport may fail.              *)
(***************************************************************************)
fail_chunk ==
    /\ fl.phase = "streaming"
    /\ fl.pc < Len(fl.script)
    /\ fl' = [fl EXCEPT !.pc = @ + 1, !.L = OnItem(fl.L, fl.script[fl.pc + 1])]
    /\ UNCHANGED <<chatVars, exceptFl>>

\* the loop ends, the placeholder is completed and committed
fail_end ==
    /\ fl.phase = "streaming"
    /\ fl.pc = Len(fl.script)
    /\ fl' = [fl EXCEPT !.phase = "done", !.L = Finalize(fl.L),
                        !.status = "completed", !.committed = TRUE]
    /\ UNCHANGED <<chatVars, exceptFl>>

\* the transport raises exc where the next item was due.  An exception that
\* run_streaming catches becomes an {"type": "error"} chunk, for which the
\* loop has no branch, and the generator of the agent ends: the code after the
\* loop runs.  Any other exception reaches the except clause of
\* send_message_streaming: the error event is yielded with the current
\* event_id, the placeholder is not touched, nothing is committed, and the
\* task closes its database session.
transport_fails(exc) ==
    /\ fl.phase = "streaming"
    /\ fl.pc < Len(fl.script)
    /\ fl' = IF exc \in AdapterCaught
             THEN [fl EXCEPT !.phase = "done", !.exc = exc, !.L = Finalize(fl.L),
                             !.status = "completed", !.committed = TRUE]
             ELSE [fl EXCEPT !.phase = "failed", !.exc = exc,
                             !.L.out = Append(@, Event(ERROR, fl.L.event_id, <<>>))]
    /\ UNCHANGED <<chatVars, exceptFl>>

(***************************************************************************)
(* One tool call of a turn: the function_call event reaches the streaming  *)
(* loop, the ADK runner calls execute_mcp_tool, the function_response      *)
(* event reaches the streaming loop.                                       *)
(***************************************************************************)
tool_call_event ==
    /\ hub.phase = "asked"
    /\ hub' = [hub EXCEPT !.phase = "pending",
                          !.L = OnToolCalls(hub.L, hub.request.name)]
    /\ UNCHANGED <<chatVars, exceptHub>>

execute_mcp_tool ==
    /\ hub.phase = "pending"
    /\ LET r == hub.request
           result == CallTool(r.server, r.name, r.arguments, r.body_ok)
       IN hub' = [hub EXCEPT !.phase = "returned", !.result = result,
                             !.output = ExecuteMcpTool(result)]
    /\ UNCHANGED <<chatVars, exceptHub>>

tool_result_event ==
    /\ hub.phase = "returned"
    /\ hub' = [hub EXCEPT !.phase = "recorded",
                          !.L = OnToolResult(hub.L, hub.request.name)]
    /\ UNCHANGED <<chatVars, exceptHub>>

\* the runner calls generate_content_async; the reply asks for a tool or is the
\* final text.  No code reads max_iterations.
generate_content(reply) ==
    /\ loop.phase = "llm"
    /\ loop.llm_calls < MaxLlmCalls
    /\ loop' = [loop EXCEPT !.llm_calls = @ + 1,
                            !.phase = IF reply = "text" THEN "done" ELSE "tool",
                            !.dispatched = IF reply = "text" THEN @ ELSE Append(@, reply)]
    /\ UNCHANGED <<chatVars, exceptLoop>>

\* the runner has dispatched the tool and goes on with the next LLM call
tool_returns ==
    /\ loop.phase = "tool"
    /\ loop' = [loop EXCEPT !.phase = "llm"]
    /\ UNCHANGED <<chatVars, exceptLoop>>

\* step 1 of the context of a turn: is a summary due
check_summary_threshold ==
    /\ th.phase = "start"
    /\ th' = [th EXCEPT !.phase = "checked",
                        !.should_generate_summary =
                            ShouldSummarize(th.current_context_tokens,
                                            th.max_context_length)]
    /\ UNCHANGED <<chatVars, exceptTh>>

(***************************************************************************)
(* Specifications.  Spec is the whole server.  SpecTurn is the server      *)
(* without message edits and deletions, SpecDB the server without          *)
(* WebSocket traffic (no connection is ever registered, so every task ends *)
(* at its first frame), SpecWS the WebSocket endpoint alone, SpecAbort the  *)
(* turns with the connection events that make a task abort: a connection   *)
(* that is registered, one that the client drops, and a deleted session.   *)
(***************************************************************************)
MsgIndex == 1..(MaxSeed + 2 * MaxTurns)

TurnSteps ==
    \/ \E t \in Turns : send_message(t)
    \/ \E t \in Turns, model_ok \in BOOLEAN : TaskStart(t, model_ok)
    \/ \E t \in Turns : TaskResume(t)

SocketSteps ==
    \/ \E s \in SockIds : connect(s)
    \/ \E s \in SockIds : client_close(s)
    \/ \E s \in SockIds : endpoint_exit(s)
    \/ \E s \in SockIds : heartbeat(s)
    \/ \E s \in SockIds, leaves \in BOOLEAN : stop_generation(s, leaves)

Next ==
    \/ TurnSteps
    \/ SocketSteps
    \/ \E i \in MsgIndex : edit_message(i)
    \/ \E i \in MsgIndex : delete_message(i)
    \/ delete_session

Spec == Init /\ [][Next]_vars

NextTurn ==
    \/ TurnSteps
    \/ SocketSteps
    \/ delete_session

SpecTurn == Init /\ [][NextTurn]_vars

NextDB ==
    \/ \E t \in Turns : send_message(t)
    \/ \E t \in Turns, model_ok \in BOOLEAN : TaskStart(t, model_ok)
    \/ \E i \in MsgIndex : edit_message(i)
    \/ \E i \in MsgIndex : delete_message(i)
    \/ delete_session

SpecDB == Init /\ [][NextDB]_vars

\* the message operations alone, on stored history and newly posted messages
NextEdit ==
    \/ \E t \in Turns : send_message(t)
    \/ \E i \in MsgIndex : edit_message(i)
    \/ \E i \in MsgIndex : delete_message(i)

SpecEdit == Init /\ [][NextEdit]_vars

NextDelete ==
    \/ \E t \in Turns : send_message(t)
    \/ \E i \in MsgIndex : edit_message(i)
    \/ \E i \in MsgIndex : delete_message(i)
    \/ delete_session

SpecDelete == Init /\ [][NextDelete]_vars

\* the message operations with a summarization that gets its summary text
NextSummary ==
    \/ \E t \in Turns : send_message(t)
    \/ generate_session_summary
    \/ \E i \in MsgIndex : edit_message(i)
    \/ \E i \in MsgIndex : delete_message(i)

SpecSummary == Init /\ [][NextSummary]_vars

SpecWS == Init /\ [][SocketSteps]_vars

NextAbort ==
    \/ TurnSteps
    \/ \E s \in SockIds : connect(s)
    \/ \E s \in SockIds : client_close(s)
    \/ delete_session

SpecAbort == Init /\ [][NextAbort]_vars

NextRate ==
    \/ \E u \in Users, addr \in Addresses, token \in Tokens : http_request(u, addr, token)
    \/ Tick

SpecRate == InitFresh /\ [][NextRate]_vars

NextStream ==
    \/ agent_chunk
    \/ stream_end

SpecStream == InitStream /\ [][NextStream]_vars

NextLoop ==
    \/ \E reply \in ToolNames \cup {"text"} : generate_content(reply)
    \/ tool_returns

SpecLoop == InitFresh /\ [][NextLoop]_vars

NextToolCalls ==
    \/ \E n \in ToolNames : function_call(n)
    \/ tools_complete
    \/ function_response
    \/ finalize_turn

SpecToolCalls == InitFresh /\ [][NextToolCalls]_vars

NextShared ==
    \/ \E t \in Turns : run_streaming(t)
    \/ \E t \in Turns, content \in BOOLEAN : generate_content_async(t, content)
    \/ \E t \in Turns : turn_ends(t)

SpecShared == InitFresh /\ [][NextShared]_vars

NextRegistry ==
    \/ \E c \in ToolClasses : register(c)
    \/ \E n \in RegistryNames : unregister(n)
    \/ \E n \in RegistryNames : get_tool(n)
    \/ \E n \in RegistryNames : get_instance(n)

SpecRegistry == InitFresh /\ [][NextRegistry]_vars

NextTitle ==
    \/ complete_turn
    \/ \E k \in 1..MaxCompleted : generate_title(k)
    \/ \E j \in 1..MaxCompleted : edit_user_message(j)
    \/ update_session

SpecTitle == InitFresh /\ [][NextTitle]_vars

NextAuth ==
    \/ login
    \/ \E r \in 1..MaxIssued : refresh_access_token(r)
    \/ \E r \in 1..MaxIssued : logout(r)
    \/ \E r \in 1..MaxIssued : expire(r)
    \/ \E r \in 1..MaxIssued, sc \in Schemes, pa \in Paths : authorized_request(r, sc, pa)

SpecAuth == InitFresh /\ [][NextAuth]_vars

NextFail ==
    \/ fail_chunk
    \/ fail_end
    \/ \E exc \in TransportErrors : transport_fails(exc)

SpecFail == InitFail /\ [][NextFail]_vars

NextHub ==
    \/ tool_call_event
    \/ execute_mcp_tool
    \/ tool_result_event

SpecHub == InitHub /\ [][NextHub]_vars

NextThreshold == check_summary_threshold

SpecThreshold == InitThreshold /\ [][NextThreshold]_vars

NextPrompt ==
    \/ \E t \in Turns : send_message(t)
    \/ \E t \in Turns : llm_turn(t)
    \/ \E i \in MsgIndex : edit_message(i)
    \/ restart

SpecPrompt == Init /\ [][NextPrompt]_vars

(***************************************************************************)
(* Properties.                                                             *)
(***************************************************************************)
IsEnvelope(f) == "event_type" \in DOMAIN f

IsEvent(f, type) == IsEnvelope(f) /\ f.event_type = type

\* the positions of the frames of turn t that are events of the given type
EventsOf(t, type) == {i \in 1..Len(sent[t]) : IsEvent(sent[t][i], type)}

\* C1: of any two consecutive frames a turn puts on the wire, whatever their
\* types, both are events with an event_id, and the later one has event_id 0
\* when its event_type differs from the earlier one's and the earlier
\* event_id plus one when it is the same.
C1_EventIdRule ==
    \A t \in Turns : \A i \in 1..(Len(sent[t]) - 1) :
        LET a == sent[t][i]
            b == sent[t][i + 1]
        IN /\ IsEnvelope(a)
           /\ IsEnvelope(b)
           /\ IF b.event_type = a.event_type
              THEN b.event_id = a.event_id + 1
              ELSE b.event_id = 0

\* C2: the frames of a turn that was accepted (message_start went out) and
\* whose task has ended with its connection alive are events only, the last
\* one is the done event, and an llm_invocation_complete event precedes it.
C2_TurnGrammar ==
    \A t \in Turns :
        (turn[t].task = "exited" /\ turn[t].exit = "raised"
            /\ mgr.active_connections # 0) =>
        LET n == Len(sent[t])
        IN /\ \A i \in 1..n : IsEnvelope(sent[t][i])
           /\ n >= 3
           /\ IsEvent(sent[t][n], MESSAGE_DONE)
           /\ \E i \in 2..(n - 1) : IsEvent(sent[t][i], LLM_INVOCATION_COMPLETE)

\* C3: a turn that failed, at its start (session or model missing) or later,
\* ends on the wire with exactly one error event immediately followed by one
\* done event with is_finish true and status 5.
C3_FailedTurnEnding ==
    \A t \in Turns :
        (turn[t].task = "exited" /\ turn[t].exit \in {"done", "raised"}
            /\ mgr.active_connections # 0) =>
        LET n == Len(sent[t])
        IN /\ n >= 2
           /\ IsEvent(sent[t][n - 1], ERROR)
           /\ IsEvent(sent[t][n], MESSAGE_DONE)
           /\ sent[t][n].is_finish
           /\ sent[t][n].status = STATUS_ERROR
           /\ Cardinality(EventsOf(t, ERROR)) = 1
           /\ Cardinality(EventsOf(t, MESSAGE_DONE)) = 1

C5_StopFinalizes ==
    \A t \in hist.turns :
        (turn[t].task = "exited" /\ turn[t].gen = "started"
            /\ mgr.active_connections # 0) =>
        /\ Cardinality({i \in 1..Len(sent[t]) : sent[t][i] = StoppedNotice}) = 1
        /\ Cardinality({i \in EventsOf(t, MESSAGE_DONE) :
                            sent[t][i].status = STATUS_ERROR}) = 1
        /\ \E i \in 1..Len(msgs) :
              /\ msgs[i].id = turn[t].assistant_message_id
              /\ msgs[i].committed

\* C8: the session's current_context_tokens is the total_tokens of its latest
\* assistant message that is not deleted, 0 when there is none.
C8_ContextTokensOfLatest ==
    sess.current_context_tokens = calculate_current_context_tokens(Committed(msgs))

\* C9: when two turns whose tasks ran at the same time have both gone into the
\* summarization and have ended, exactly one summary message has been created.
C9_OneSummary ==
    (/\ hist.overlap = Turns
     /\ \A t \in Turns : turn[t].task = "exited" /\ turn[t].summary_selected) =>
    Cardinality({i \in 1..Len(msgs) : msgs[i].is_summary /\ msgs[i].committed}) = 1

\* C10: while a connection of the user is registered, no other connection of
\* the user is open and no other heartbeat task is running.
C10_OneConnection ==
    \A s \in SockIds :
        (mgr.active_connections # 0 /\ s # mgr.active_connections) =>
        /\ socks[s].state # "open"
        /\ socks[s].heartbeat # "running"

RECURSIVE SumOver(_, _)
SumOver(f, S) ==
    IF S = {} THEN 0
    ELSE LET x == CHOOSE y \in S : TRUE IN f[x] + SumOver(f, S \ {x})

\* the number of requests of user u from address addr that were let through
\* in the window_seconds seconds from second s on
AllowedIn(u, addr, s) ==
    SumOver(rl.served[u][addr], {x \in 0..MaxClock : x >= s /\ x < s + window_seconds})

\* C11: no interval of window_seconds seconds holds more than max_requests
\* requests of one user (sent from one address) that were let through.
C11_SlidingWindowLimit ==
    \A u \in Users, addr \in Addresses, s \in 0..MaxClock :
        AllowedIn(u, addr, s) <= max_requests

\* C12: a request that carries a valid access token is counted under the key
\* of its user.
C12_CountedPerUser ==
    \A e \in rl.answered :
        e.token = "valid" => e.key = <<"user", e.user>>


(***************************************************************************)
(* The normalized events of a turn: the thinking and content events the    *)
(* streaming loop has sent, each with the text it carries.                 *)
(***************************************************************************)
IsTextEvent(e) ==
    e.event_type \in {THINKING_START, THINKING_DELTA, THINKING_COMPLETE, MESSAGE_CONTENT}
Normalized(out) ==
    LET ev == SelectSeq(out, IsTextEvent)
    IN [k \in 1..Len(ev) |->
          <<ev[k].event_type,
            IF ev[k].event_type \in {THINKING_DELTA, MESSAGE_CONTENT}
            THEN ev[k].text ELSE <<>> >>]

Frames13 == << OpenTag \o <<"a", "b", "c">>,
               <<"d", "e", "f">> \o CloseTag \o <<"x", "y", "z">> >>
Frames14 == << <<"<", "t", "h">>,
               <<"i", "n", "k", ">", "p", "l", "a", "n">> \o CloseTag \o <<"a", "n", "s">>,
               <<"w", "e", "r">> >>

\* C13: when the LLM delivers "<think>abc" in one frame and "def</think>xyz" in
\* the next, the events emitted are exactly thinking_begin, thinking_delta("abc"),
\* thinking_delta("def"), thinking_end, content_delta("xyz")
C13_ThinkingSplitAcrossFrames ==
    (st.script = TextScript(Frames13) /\ st.pc >= Len(Frames13))
        => Normalized(st.L.out) =
              << <<THINKING_START, <<>> >>,
                 <<THINKING_DELTA, <<"a", "b", "c">> >>,
                 <<THINKING_DELTA, <<"d", "e", "f">> >>,
                 <<THINKING_COMPLETE, <<>> >>,
                 <<MESSAGE_CONTENT, <<"x", "y", "z">> >> >>

\* C14: when "<think>plan</think>answer" arrives as the frames "<th",
\* "ink>plan</think>ans", "wer", the events emitted are exactly thinking_begin,
\* thinking_delta("plan"), thinking_end, content_delta("ans"), content_delta("wer")
C14_TagSplitAcrossFrames ==
    (st.script = TextScript(Frames14) /\ st.pc >= Len(Frames14))
        => Normalized(st.L.out) =
              << <<THINKING_START, <<>> >>,
                 <<THINKING_DELTA, <<"p", "l", "a", "n">> >>,
                 <<THINKING_COMPLETE, <<>> >>,
                 <<MESSAGE_CONTENT, <<"a", "n", "s">> >>,
                 <<MESSAGE_CONTENT, <<"w", "e", "r">> >> >>

\* the kinds of the events on the wire; an llm_invocation_complete with its sequence
WireKinds(out) ==
    [k \in 1..Len(out) |->
        <<out[k].event_type,
          IF out[k].event_type = LLM_INVOCATION_COMPLETE THEN out[k].sequence ELSE 0>>]

\* C15: in a turn whose first LLM call returns one tool call and whose second
\* returns text, the events on the wire are exactly message_start, tool_call,
\* llm_invocation_complete(seq=1), tool_result, content_delta,
\* llm_invocation_complete(seq=2), message_done
C15_ToolTurnEvents ==
    (st.script = ToolScript(<<>>, <<Hi>>) /\ st.phase = "done")
        => WireKinds(st.L.out) =
              << <<MESSAGE_START, 0>>, <<TOOL_CALL, 0>>, <<LLM_INVOCATION_COMPLETE, 1>>,
                 <<TOOL_RESULT, 0>>, <<MESSAGE_CONTENT, 0>>,
                 <<LLM_INVOCATION_COMPLETE, 2>>, <<MESSAGE_DONE, 0>> >>

\* C16: in a single-turn exchange without tools where the LLM returns "hi" and
\* reports prompt=3, completion=1, message_done carries current_context_tokens
\* = 4, and exactly one LLM invocation, with sequence_number 1, and no tool
\* invocation are persisted
C16_SingleTurnTokens ==
    (st.script = TextScript(<<Hi>>) /\ st.phase = "done")
        => /\ st.L.out[Len(st.L.out)].event_type = MESSAGE_DONE
           /\ st.L.out[Len(st.L.out)].current_context_tokens = 4
           /\ Len(st.L.llm_rows) = 1
           /\ st.L.llm_rows[1].sequence_number = 1
           /\ st.L.tool_rows = <<>>

\* C17: a turn that finds current_context_tokens at the threshold of the
\* model's max_context_length, in a session with more than the 5 messages to
\* keep, gets past the summarization with the oldest messages replaced by one
\* is_summary message: they are marked is_summarized, the summary message
\* exists, and only the 5 most recent prior messages stay unsummarized.
C17_SummarizationReplacesOldest ==
    \A t \in Turns :
        (turn[t].summary_selected /\ turn[t].gen # "summarizing") =>
            /\ Cardinality({i \in 1..Len(msgs) :
                               msgs[i].is_summary /\ ~msgs[i].is_deleted}) = 1
            /\ Len(SummaryCandidates(msgs, t)) = KeepRecent

\* C19: edit_message(m) soft-deletes m and every message created after m,
\* leaves the is_deleted flag of every earlier message unchanged, and creates
\* no new message.
C19_EditSoftDeletes ==
    [][\A i \in MsgIndex :
          edit_message(i) =>
             /\ Len(msgs') = Len(msgs)
             /\ \A k \in 1..Len(msgs) :
                   /\ (k < i) => (msgs'[k].is_deleted = msgs[k].is_deleted)
                   /\ (k >= i /\ msgs[k].committed) => msgs'[k].is_deleted]_vars

\* an edit of a message that has an earlier and a later message has acted
C19_Witness ==
    /\ hist.edited > 1
    /\ hist.edited < Len(msgs)
    /\ ~msgs[1].is_deleted
    /\ \A k \in hist.edited..Len(msgs) : msgs[k].committed => msgs[k].is_deleted

\* the contents of the messages of an LLM call, the system prompt left out
PromptContents(prompt) ==
    LET given == SelectSeq(prompt, LAMBDA m : m # SystemPromptMessage)
    IN [k \in 1..Len(given) |-> given[k].content]

\* the ids of the rows with the given indices, in created_at order
RECURSIVE IdsOf(_, _)
IdsOf(rows, keep) ==
    IF rows = <<>> THEN <<>>
    ELSE IdsOf(SubSeq(rows, 1, Len(rows) - 1), keep)
            \o (IF Len(rows) \in keep THEN << <<rows[Len(rows)].id>> >> ELSE <<>>)

\* C18: after edit_message(m) and a POST of new content, the messages given to
\* the LLM are the non-deleted messages that preceded m followed by the new
\* user content, and none of them is a message the edit soft-deleted, also
\* when earlier turns of the session were served by the same process.
C18_HistoryAfterEdit ==
    LET rows == adk.rows
        m == adk.edited
        live == {k \in 1..Len(rows) : ~rows[k].is_deleted}
    IN (/\ adk.prompt # <<>>
        /\ m # 0
        /\ rows[m].is_deleted
        /\ {k \in live : k > m} = {Len(rows)}
        /\ rows[Len(rows)].role = "user")
       => PromptContents(adk.prompt) = IdsOf(rows, live)

\* C20: the messages given to the LLM for a turn are the latest non-deleted
\* summary message, if any, exactly once, and all messages with is_deleted =
\* false and is_summarized = false in created_at order, without the turn's
\* pending assistant placeholder.
C20_PromptWindow ==
    LET rows == adk.rows
        summaries == {k \in 1..Len(rows) : rows[k].is_summary /\ ~rows[k].is_deleted}
        window == {k \in 1..Len(rows) :
                      /\ ~rows[k].is_deleted /\ ~rows[k].is_summarized
                      /\ ~rows[k].is_summary
                      /\ rows[k].id # adk.assistant_message_id}
    IN adk.prompt # <<>> =>
          PromptContents(adk.prompt) =
              (IF summaries = {} THEN <<>> ELSE << <<rows[MaxOf(summaries)].id>> >>)
                  \o IdsOf(rows, window)

\* C21: summarization is triggered for a turn if and only if the session's
\* current_context_tokens is at least 0.9 times the model's max_context_length,
\* compared exactly: 10 * tokens >= 9 * length.
C21_ExactThreshold ==
    th.phase = "checked" =>
        LET length == IF th.max_context_length = 0 THEN DefaultMaxContext
                      ELSE th.max_context_length
        IN th.should_generate_summary <=> (10 * th.current_context_tokens >= 9 * length)

\* C22: within one turn the number of LLM calls never exceeds max_iterations;
\* when the bound is reached an error event is emitted and the turn ends, so a
\* turn ends even if every reply of the LLM asks for a tool.
C22_IterationsBounded ==
    /\ loop.llm_calls <= loop.max_iterations
    /\ (loop.llm_calls = loop.max_iterations /\ loop.phase # "done") => loop.errors = 1

\* C23: for every tools/call the tool name and the arguments are checked
\* against the tool's declared input schema before the tool body is
\* dispatched; on a mismatch the body is not executed and the result has
\* is_error = true.
C23_ValidatedBeforeDispatch ==
    LET r == hub.request
    IN (/\ hub.phase \in {"returned", "recorded"}
        /\ (r.name # ToolOf(r.server) \/ ~Conforms(r.server, r.arguments)))
       => (~hub.result.executed /\ hub.result.isError)

\* C24: when a tool call fails, by a schema mismatch or by the tool body
\* raising, its ToolInvocation row ends with status error and the error text
\* is returned to the LLM as the tool's output, not raised.
C24_FailedToolRecorded ==
    (hub.phase = "recorded" /\ hub.result.isError)
       => /\ \A k \in 1..Len(hub.L.tool_rows) : hub.L.tool_rows[k].status = "error"
          /\ ~hub.output.raised
          /\ hub.output.error_text

\* C25: when the LLM transport fails during a turn, an error event is
\* surfaced and the turn finalizes with the assistant message in error
\* status; the message is never finalized as completed.
C25_TransportFailureIsError ==
    (fl.exc # "none" /\ fl.phase \in {"done", "failed"})
       => /\ \E k \in 1..Len(fl.L.out) : fl.L.out[k].event_type = ERROR
          /\ fl.status = "error"
          /\ fl.status # "completed"

\* C26: a turn that fails after its placeholder was created leaves the
\* placeholder row persisted with status error; the row is written as
\* completed only when the turn ended normally.
C26_FailedTurnKeepsErrorRow ==
    \A t \in Turns :
        (turn[t].task = "exited" /\ turn[t].exit = "raised"
            /\ turn[t].assistant_message_id # 0) =>
        \E i \in 1..Len(msgs) :
            /\ msgs[i].id = turn[t].assistant_message_id
            /\ msgs[i].committed
            /\ msgs[i].status = "error"

\* C27: once a refresh token is purged (logout, rotation on refresh,
\* expiry), every later HTTP request that presents an access token bound to
\* it is rejected by the auth middleware.
C27_PurgedTokenRejected ==
    au.request.purged => au.request.middleware = "401"

\* C28: after the status of a session has become deleted, no operation
\* changes any field of the session.
C28_DeletedSessionFrozen ==
    [][sess.status = "deleted" => sess' = sess]_vars

\* C29: title generation is scheduled only by the very first turn of a
\* session, and no later turn generates or overwrites the title.
C29_TitleOnlyByFirstTurn ==
    /\ tt.scheduled \subseteq {1}
    /\ tt.title \in {<<"default">>, <<"user">>, GeneratedTitle(1)}

\* what get_instance and get_tool return for a name that is not registered
UnregisteredGivesNone ==
    (rg.last.op \in {"get_instance", "get_tool"} /\ ~rg.last.registered)
       => (rg.last.instance = 0 /\ rg.last.tool = "None")

\* C30: for a registered tool name every get_instance call returns the
\* identical instance, from its registration until it is unregistered, and
\* get_tool returns the registered class; for a name that is not registered
\* get_instance and get_tool return None.
C30_SameInstanceWhileRegistered ==
    /\ \A n \in RegistryNames : Cardinality(rg.returned[n]) <= 1
    /\ (rg.last.op = "get_instance" /\ rg.last.registered) => rg.last.instance # 0
    /\ (rg.last.op = "get_tool" /\ rg.last.registered) => rg.last.tool \in ToolClasses
    /\ UnregisteredGivesNone

\* a second get_instance for a registered name has returned the cached instance
C30_Witness ==
    /\ rg.last.op = "get_instance"
    /\ rg.last.registered
    /\ rg.last.cached
    /\ rg.returned[rg.last.name] = {rg.last.instance}

\* C40: in every state of a ToolRegistry each cached instance belongs to a
\* name that is registered and is an instance of the class registered under
\* that name.
C40_CachedInstanceOfRegisteredClass ==
    \A n \in RegistryNames :
        rg.instances[n] # 0 =>
            /\ rg.tools[n] # "None"
            /\ rg.created[rg.instances[n]] = rg.tools[n]

\* C31: every ToolInvocation row is inserted pending and its status is
\* changed exactly once, to success or error, when the tool has completed:
\* no row is updated twice, and in a finalized turn no row of a completed
\* tool is still pending.
C31_RowUpdatedOnce ==
    /\ \A k \in 1..Len(tc.L.tool_rows) :
          /\ tc.updates[k] <= 1
          /\ tc.L.tool_rows[k].status \in {"pending", "success", "error"}
          /\ (tc.L.tool_rows[k].status = "pending") <=> (tc.updates[k] = 0)
          /\ tc.updates[k] = 1 => k \notin {tc.awaiting[j] : j \in 1..Len(tc.awaiting)}
                                   \/ tc.phase = "responses"
    /\ tc.phase = "done" =>
          \A k \in 1..Len(tc.L.tool_rows) : tc.L.tool_rows[k].status # "pending"

\* a turn with three tool calls, two of them of one reply, has been finalized
C31_Witness ==
    /\ tc.phase = "done"
    /\ Len(tc.L.tool_rows) = MaxToolCalls
    /\ \A k \in 1..Len(tc.updates) : tc.updates[k] = 1

\* C35: when a turn has several pending calls of the same tool, every
\* tool_result event and row update is attributed to the call it answers.
C35_ResultPairedWithItsCall ==
    \A j \in 1..Len(tc.answers) : tc.answers[j].tool_id = tc.answers[j].call

\* the rows that record the calls of turn t, in call order
RowsOfTurn(t) == SelectSeq(sh.rows, LAMBDA r : r.turn = t)

\* C32: (message_id, sequence_number) is unique among the invocation rows,
\* and within each turn the numbers are assigned 1, 2, 3, ... in call order,
\* also when turns of one session and model run one after another or
\* concurrently.
C32_SequenceNumbersPerTurn ==
    /\ \A i, j \in 1..Len(sh.rows) :
          (sh.rows[i].message_id = sh.rows[j].message_id
              /\ sh.rows[i].sequence_number = sh.rows[j].sequence_number) => i = j
    /\ \A t \in Turns :
          \A k \in 1..Len(RowsOfTurn(t)) : RowsOfTurn(t)[k].sequence_number = k

\* C33: exactly one LLMInvocation row is recorded for every outbound LLM HTTP
\* call of a turn.
C33_OneRowPerHttpCall ==
    \A t \in Turns : Len(RowsOfTurn(t)) = sh.http[t]

\* C34: when two turns run concurrently on one session and model, the LLM
\* calls of each turn use that turn's own history and are recorded under
\* that turn's own placeholder message, in its own database session.
C34_TurnsKeepTheirOwnState ==
    \A i \in 1..Len(sh.rows) :
        /\ sh.rows[i].history = sh.rows[i].turn
        /\ sh.rows[i].message_id = sh.rows[i].turn
        /\ sh.rows[i].db_session = sh.rows[i].turn

\* C39: in every committed state the session's message_count equals the
\* number of its non-deleted messages, under any sequence of message
\* creation, edit_message and delete_message.
C39_MessageCountIsLiveCount ==
    sess.message_count =
        Cardinality({k \in 1..Len(msgs) : msgs[k].committed /\ ~msgs[k].is_deleted})

\* C38: if the session has a non-deleted message with is_summarized = true
\* then it also has a non-deleted summary message (is_summary = true), after
\* any sequence of summarize, edit_message and delete_message.
C38_SummarizedHaveLiveSummary ==
    (\E i \in 1..Len(msgs) : msgs[i].committed /\ ~msgs[i].is_deleted
                              /\ msgs[i].is_summarized)
    => (\E k \in 1..Len(msgs) : msgs[k].committed /\ ~msgs[k].is_deleted
                                 /\ msgs[k].is_summary)

\* C37: while the user's most recently accepted WebSocket is open it is the
\* registered connection and its heartbeat task runs: the cleanup of an older
\* connection (its handler exiting, its heartbeat failing) neither removes
\* the newer registration nor cancels the newer heartbeat.
C37_NewestOpenSocketRegistered ==
    \A s \in SockIds :
        (/\ socks[s].state = "open"
         /\ \A n \in SockIds : n > s => socks[n].state = "none")
        => /\ mgr.active_connections = s
           /\ mgr.heartbeat_tasks = s
           /\ socks[s].heartbeat = "running"

\* the texts of the content_delta events of a turn, concatenated
RECURSIVE ContentSent(_)
ContentSent(out) ==
    IF out = <<>> THEN <<>>
    ELSE (IF Head(out).event_type = MESSAGE_CONTENT THEN Head(out).text ELSE <<>>)
            \o ContentSent(Tail(out))

\* C36: for every completed turn the concatenation of the texts of all
\* content_delta events sent during the turn equals the assistant content
\* persisted at finalize, for any placement of <think> blocks and frame
\* boundaries.
C36_SentContentIsStoredContent ==
    st.phase = "done" => ContentSent(st.L.out) = st.L.assistant_content

====
